---- MODULE Spec2Model ----
(***************************************************************************)
(* PocketFrame export core: the accelerated-playback frame extractor       *)
(* (VideoProcessor), the streaming WebCodecs encoder and the export         *)
(* orchestration (exportVideo / runAutomationCommand).                      *)
(*                                                                          *)
(* Time is counted in ticks of 1/TicksPerSecond s.  One JavaScript task     *)
(* together with the microtasks it triggers is one action.                  *)
(***************************************************************************)
EXTENDS Integers, Sequences, FiniteSets, TLC

\* ------------------------------------------------------------------ bounds
\* Longest source clip of the ordinary jobs, in ticks.
MaxDuration == 7
\* How many frames the video may present between two frame callbacks.
MaxLag == 3
\* How many dither requests one worker session issues.
MaxRequests == 4
\* How many times the Export button is used in one session of the dialog.
MaxExports == 3
\* How many setSettings calls and processFrame calls one processor receives.
MaxRuns == 3
MaxRenders == 3
\* Largest width and height of the source video's aspect ratio in lowest terms.
MaxSourceDim == 9
\* Longest source clip of the trim model, in seconds.
MaxTrimDuration == 3
\* Largest width and height of a source video of the crop model, in pixels.
MaxCropSource == 6
\* Most samples of an audio clip, and the frames of one render quantum.
MaxSamples == 8
RenderQuantum == 2
\* Width and height of the image of the Floyd-Steinberg model, in pixels.
FsWidth == 3
FsHeight == 2
\* Most pixels of such an image that are not black.
MaxLitPixels == 3
\* Most flips of invertPalette for one palette.
MaxInversions == 3
\* Most recreations of the processing targets of one pipeline.
MaxRecreations == 3
\* Frames handed to one WebCodecsEncoder.
MaxCodecFrames == 33

\* ------------------------------------------------------- program constants
ENCODE_QUEUE_BACKPRESSURE == 30
\* seekTo(video, targetTime, timeout = 15000, maxRetries = 3)
maxRetries == 3
\* VideoProcessor's default LCD settings, in percent
ghostingStrength == 30
shadowOpacity == 35
baselineAlpha == 5
BASE_PIXEL_DENSITY == 144
\* EXPORT_SCALE.HIGH_QUALITY
HIGH_QUALITY == 4
\* TIMELINE constants, in hundredths of the duration
MIN_TRIM_DISTANCE == 2
KEYBOARD_STEP == 1
KEYBOARD_LARGE_STEP == 5
\* GBCAM_CROP_ASPECT = 128 / 112 = 8 / 7; lengths are kept in 1/560 pixel so
\* that tenths of the source size and their products with 8/7 and 7/8 are whole.
PixelUnit == 560
\* GBCAM_MIN_CROP_WIDTH_NORM, in tenths
GBCAM_MIN_CROP_WIDTH_NORM == 2
BITCRUSH_SAMPLE_RATE_REDUCTION == 6
\* updateDistortionCurve: const samples = 8192
CurveSamples == 8192
\* BitcrusherProcessor keeps sampleCounter below this
CounterLimit == 1000000
\* Math.PI, as the fraction 355 / 113
PiNumerator == 355
PiDenominator == 113

\* Target frame rates of the modelled jobs (frames per second).
Fps == {5, 10}
\* The tick is chosen so that every modelled frame interval is a whole
\* number of ticks.
TicksPerSecond == CHOOSE t \in Fps : \A f \in Fps : t % f = 0

Min(a, b) == IF a < b THEN a ELSE b
Max(a, b) == IF a > b THEN a ELSE b

\* const frameInterval = 1 / fps, in ticks
frameInterval(fps) == TicksPerSecond \div fps
\* const totalFrames = Math.floor(trimDuration * fps)
totalFramesOf(startTime, endTime, fps) == ((endTime - startTime) * fps) \div TicksPerSecond
\* Math.max(1, Math.min(Math.floor(60 / fps), 8))
getPlaybackRate(fps) == Max(1, Min(60 \div fps, 8))

\* Trim ranges of the ordinary jobs: 0 <= start < end <= duration.
Trims == {<<s, e>> \in {0, 2} \X {1, 3, MaxDuration - 1, MaxDuration} : s < e}
\* Ordinary jobs.
Jobs == [duration : {MaxDuration}, trim : Trims, fps : Fps,
         hasRVFC : BOOLEAN, webCodecs : BOOLEAN, entry : {"cli"}, finite : {TRUE}]
\* A clip long enough to fill the encoder queue past the backpressure mark.
LongDuration == ENCODE_QUEUE_BACKPRESSURE + 3
LongJobs == [duration : {LongDuration}, trim : {<<0, LongDuration>>},
             fps : {TicksPerSecond}, hasRVFC : BOOLEAN, webCodecs : {TRUE},
             entry : {"cli"}, finite : {TRUE}]
\* Sources whose metadata reports no usable duration (video.duration is 0,
\* or NaN / Infinity: finite = FALSE), exported from the command line and
\* from the export dialog.
BadJobs == [duration : {0}, trim : {<<0, 0>>}, fps : Fps, hasRVFC : {TRUE},
            webCodecs : BOOLEAN, entry : {"cli", "ui"}, finite : BOOLEAN]

Pending == [state |-> "pending", value |-> 0, reason |-> "none"]
\* resolve(v): a settled promise ignores further resolve / reject calls.
Resolve(p, v) == IF p.state = "pending"
                 THEN [state |-> "resolved", value |-> v, reason |-> "none"]
                 ELSE p
Reject(p, why) == IF p.state = "pending"
                  THEN [state |-> "rejected", value |-> 0, reason |-> why]
                  ELSE p

VARIABLES
    cfg,              \* the job: duration, trim, fps, hasRVFC, webCodecs, entry, finite
    \* ---- HTMLVideoElement
    currentTime, videoPaused, playbackRate, readyState, endedQueued,
    videoErrored, presented,
    \* ---- one extraction job (extractWith* / streamWith*)
    xkind,            \* "none" | "stream" | "buffer"
    xpc,              \* "idle" | "waitReady" | "seeking" | "backoff" | "playing" | "failed"
    attempt,          \* seek attempts started
    framesCaptured,   \* framesCaptured, or frames.length in the buffered variant
    prevTs, lastTs,   \* timestamps of the two most recent captured frames
    nextCaptureTime, settled, cbRegistered, timeoutArmed,
    endedListener, errorListener,
    promise,          \* the promise returned by the extraction job
    pendingEncodes,   \* consumer invocations (frame numbers) not yet settled
    endCause, framesAtEnd,   \* what ended the job first, and frames.length then
    lateFrames,       \* frames rendered after the job had ended
    consumerFailed,   \* a consumer invocation of the streaming job has failed
    \* ---- WebCodecsEncoder
    frameIndex, encodedOut, encoderError, closed,
    producedWhileFlushing,  \* a frame was produced while a flush was awaited
    \* ---- exportVideo / runAutomationCommand
    epc, events, blob, hwFailed,
    hwError,          \* an encodeFrame call threw or the encoder reported an error
    audioBlob,        \* result of audioPromise: "none" | "null" | "blob"
    hasAudio,         \* the returned MP4 carries an audio track
    error             \* the statement whose error rejected the export, or "none"

videoVars == <<currentTime, videoPaused, playbackRate, readyState, endedQueued,
               videoErrored, presented>>
jobVars == <<xkind, xpc, attempt, framesCaptured, prevTs, lastTs, nextCaptureTime,
             settled, cbRegistered, timeoutArmed, endedListener, errorListener,
             promise, pendingEncodes, endCause, framesAtEnd, lateFrames,
             consumerFailed>>
encVars == <<frameIndex, encodedOut, encoderError, closed, producedWhileFlushing>>
outVars == <<audioBlob, hasAudio, error>>
expVars == <<epc, events, blob, hwFailed, hwError, outVars>>

\* ---- the automation CLI session (electron main process and the renderer's
\* automation runner)
VARIABLES
    cli,                  \* parseAutomationCli result: mode, command, showUi
    mainPc,               \* "boot" | "running" | "exiting" | "exited"
    exitCode,             \* process exit code (0 unless set)
    stdout,               \* JSON events written to stdout, in order
    automationFinished, automationTimeout,
    ipc,                  \* renderer -> main messages not yet handled
    runnerPc,             \* position of runAutomationCommand
    failedPhase,          \* phase in which the command threw, or "none"
    commandSucceeded,     \* runAutomationCommand returned
    outputFile,           \* what is stored at the job's outputPath
    outputChecked         \* what file:exists answered for outputPath

outputVars == <<outputFile, outputChecked>>
cliVars == <<cli, mainPc, exitCode, stdout, automationFinished, automationTimeout,
             ipc, runnerPc, failedPhase, commandSucceeded, outputVars>>

\* ---- useFloydSteinberg: the dither worker and its requests
VARIABLES
    requests,             \* the promises returned by processFrame, by request number
    pendingRejectRef,     \* request whose reject is stored, or NoRequest
    workerRef,            \* a Worker exists
    listeners,            \* requests whose message / error listeners are attached
    workerInbox           \* requests posted to the worker and not yet answered

ditherVars == <<requests, pendingRejectRef, workerRef, listeners, workerInbox>>

\* ---- the export dialog (App.handleExport) and the processor singleton
VARIABLES
    isExporting,          \* store flag; the dialog shows its Export button when false
    exportPc,             \* per handleExport call: "idle" | "saveDialog" |
                          \* "exporting" | "written" | "failed" | "cancelled"
    processorInstance,    \* the singleton exists
    processorSettings     \* handleExport call whose settings the singleton holds

uiVars == <<isExporting, exportPc, processorInstance, processorSettings>>

\* ---- VideoProcessor.processFrame and the RenderPipeline it owns
VARIABLES
    currentSettings,      \* the settings last given to setSettings
    previousFrameTexture, \* the pipeline's previous-frame texture (one pixel)
    runId,                \* number of setSettings calls so far
    rendered              \* the frames processed so far: run, settings, frame, output

renderVars == <<currentSettings, previousFrameTexture, runId, rendered>>

\* ---- the output dimensions of an MP4 export
VARIABLES
    sourceVideo,          \* videoWidth and videoHeight of the loaded video
    encoderPath,          \* "none" | "webcodecs" | "ffmpeg"
    outputDims            \* width and height of the encoded video

dimVars == <<sourceVideo, encoderPath, outputDims>>

pixelVars == <<renderVars, dimVars>>

\* ---- the trim range, from the job file or the timeline to the extractor
VARIABLES
    trimPc,               \* "job" | "parsed" | "resolved" | "timeline" | "extracting"
    sourceDuration,       \* duration of the loaded video, in seconds
    jobTrim,              \* settings.trim of the job: startSec, endSec
    trimStart, trimEnd,   \* the store's trim handles, in hundredths of the duration
    trimRange             \* startTime and endTime of exportVideo, in 1/100 s

trimVars == <<trimPc, sourceDuration, jobTrim, trimStart, trimEnd, trimRange>>

\* ---- the crop region, from the job file to the pipeline
VARIABLES
    cropPc,               \* "job" | "validated" | "resolved" | "set"
    cropSource,           \* width and height of the source video, in pixels
    jobCrop,              \* settings.crop of the job, in tenths, or NoCrop
    cropRegion,           \* the resolved region, in 1/560 source pixel
    currentCropRegion     \* RenderPipeline.currentCropRegion, in 1/560 source pixel

cropVars == <<cropPc, cropSource, jobCrop, cropRegion, currentCropRegion>>

\* ---- the RenderPipeline's resolutions
VARIABLES
    sourceVideoInfo,      \* width and height given to setSourceVideoInfo
    currentDitherMode,    \* "bayer4x4" | "gameBoyCamera"
    processDims,          \* processWidth and processHeight
    displaySize,          \* displayWidth and displayHeight
    viewport,             \* the letterbox viewport: x, y, width, height
    targetGen,            \* per processing target: how often it was created
    liveTargets,          \* the targets created and not deleted: <<name, gen>>
    exportPassDims,       \* exportPassWidth and exportPassHeight
    lastExportFramebuffer \* the pass lastExportFramebuffer belongs to

resolutionVars == <<sourceVideoInfo, currentDitherMode, processDims, displaySize,
                    viewport, targetGen, liveTargets, exportPassDims,
                    lastExportFramebuffer>>

\* ---- the audio chains: the live preview graph and the offline replica
VARIABLES
    audioSettings,        \* bitDepth and distortion of the speaker simulation
    audioInput,           \* the filtered samples so far, in 1/4096 of full scale
    sampleCounter,        \* BitcrusherProcessor.sampleCounter
    lastSample,           \* BitcrusherProcessor.lastSample[0], in 1/4096
    liveOutput,           \* what the wave shaper has put out, in 2^-20
    offlineOutput         \* the channel after applyAudioBitcrush, in 2^-20

audioVars == <<audioSettings, audioInput, sampleCounter, lastSample, liveOutput,
               offlineOutput>>

\* ---- floydSteinbergDither on a whole image
VARIABLES
    fsImage,              \* the grey input pixels, row by row
    fsOutput,             \* the palette colour of every pixel, or NoImage
    fsDiffusion,          \* per pixel: its quantization error and the amounts
                          \* added to its neighbours, in 2^-20 of an 8-bit step
    bayerOutput           \* the same image through the bayer4x4 program

fsVars == <<fsImage, fsOutput, fsDiffusion, bayerOutput>>

\* ---- the palette of the dither pass and of the CPU dither
VARIABLES
    currentPalette,        \* RenderPipeline.currentPalette, a name of PALETTES
    currentInvertPalette,  \* RenderPipeline.currentInvertPalette
    paletteData,           \* the u_palette uniform of the last dither pass
    fsPalette,             \* the palette processFrame gave floydSteinbergDither
    inversions,            \* how often invertPalette was flipped for this palette
    firstPalettes,         \* paletteData and fsPalette before the first flip
    quantized              \* the last findClosestColorIndex call, or NoQuantization

paletteVars == <<currentPalette, currentInvertPalette, paletteData, fsPalette,
                 inversions, firstPalettes, quantized>>

\* ---- a WebCodecsEncoder and the VideoEncoder it owns
VARIABLES
    codecFps,             \* options.fps
    captured,             \* frames the extractor has handed to encodeFrame
    wcFrameIndex,         \* WebCodecsEncoder.frameIndex
    wcClosed,             \* WebCodecsEncoder.closed
    wcEncoderError,       \* WebCodecsEncoder.encoderError is set
    wcAudioBlob,          \* WebCodecsEncoder.audioBlob is set
    codecState,           \* VideoEncoder.state: "configured" | "closed"
    encodeQueueSize,      \* VideoEncoder.encodeQueueSize
    submitted,            \* the frames given to VideoEncoder.encode, in order
    awaitingFlush,        \* encodeFrame calls suspended on encoder.flush()
    finalizePc,           \* the finalize call: "idle" | "flush" | "audio"
    blobsReturned,        \* blobs returned by finalize
    lastCall              \* the last call of encodeFrame, finalize or close

codecVars == <<codecFps, captured, wcFrameIndex, wcClosed, wcEncoderError,
               wcAudioBlob, codecState, encodeQueueSize, submitted,
               awaitingFlush, finalizePc, blobsReturned, lastCall>>

\* ---- seekTo and its attemptSeek calls on one video element
VARIABLES
    seekPc,               \* seekTo: "idle" | "attempting" | "backoff" | "done" | "failed"
    seekAttempts,         \* the attemptSeek calls so far, one record each
    seekInProgress,       \* the attempt whose seek the element is running, or 0
    mediaErrored,         \* the element has reported a media error
    mediaQueue            \* events queued on the element, not yet dispatched

seekVars == <<seekPc, seekAttempts, seekInProgress, mediaErrored, mediaQueue>>

\* ---- the AudioSettings on their way to the three places that use them
VARIABLES
    audioGiven,           \* the audio settings as given (job file, caller), in 1/10
    audioJob,             \* settings.audio of the parsed job, in 1/10
    audioOffline,         \* the values the offline replica computes with, in 1/10
    audioLive             \* the values the live graph computes with, in 1/10

usageVars == <<audioGiven, audioJob, audioOffline, audioLive>>

\* The objects modelled on their own.
objectVars == <<codecVars, seekVars, usageVars>>
exceptCodec == <<seekVars, usageVars>>
exceptSeek == <<codecVars, usageVars>>
exceptUsage == <<codecVars, seekVars>>
\* The numeric kernels.
numericVars == <<audioVars, fsVars, paletteVars>>
kernelVars == <<numericVars, objectVars>>
exceptAudio == <<fsVars, paletteVars, objectVars>>
exceptFs == <<audioVars, paletteVars, objectVars>>
exceptPalette == <<audioVars, fsVars, objectVars>>
\* The job settings.
jobSettingVars == <<trimVars, cropVars, resolutionVars>>
\* The job settings and the pure helpers.
settingVars == <<jobSettingVars, kernelVars>>
\* What an action on one of these groups leaves alone.
exceptTrim == <<cropVars, resolutionVars, kernelVars>>
exceptCrop == <<trimVars, resolutionVars, kernelVars>>
exceptResolution == <<trimVars, cropVars, kernelVars>>

\* State of the subsystems that take no part in an export job.
sideVars == <<cliVars, ditherVars, uiVars, pixelVars, settingVars>>
busVars == <<cliVars, ditherVars, uiVars, pixelVars>>
coreVars == <<cfg, videoVars, jobVars, encVars, expVars>>
vars == <<coreVars, sideVars>>

startTime == cfg.trim[1]
endTime == cfg.trim[2]
totalFrames == totalFramesOf(startTime, endTime, cfg.fps)
NoTs == -1

\* emit({type: 'progress', phase, value}): the log keeps the order of phases.
\* The export dialog passes no onPhaseProgress.
Emit(log, phase) == IF cfg.entry = "ui" THEN log
                    ELSE IF log # <<>> /\ log[Len(log)] = phase THEN log
                    ELSE Append(log, phase)


\* ===================================================== frame extractor
\* Mutant: the loop forgets the frames.length < totalFrames cap.
LoopGuardUncapped(ct, next, n, total) == ct >= next

\* while (video.currentTime >= nextCaptureTime && frames.length < totalFrames)
LoopGuard(ct, next, n, total) == ct >= next /\ n < total

\* The capture loop of captureFrame / tick: frames.length after the loop.
RECURSIVE CaptureCount(_, _, _)
CaptureCount(n, next, ct) ==
    IF LoopGuard(ct, next, n, totalFrames)
    THEN CaptureCount(n + 1, startTime + (n + 1) * frameInterval(cfg.fps), ct)
    ELSE n

\* Mutant: the timestamp is taken relative to the trim start.
FrameTimestampRelative(ct) == ct - startTime

\* processFrame: timestamp: video.currentTime
FrameTimestamp(ct) == ct

\* Mutant: the timeout resolves even when nothing was captured.
TimeoutAlwaysResolves(n) == n >= 0

\* if (frames.length > 0) resolve(frames) else reject(...)   (timeout handlers)
TimeoutKeepsPartial(n) == n > 0

\* Mutant: off-by-one in the retry bound.
SeekMayRetryOnceMore(started) == started <= maxRetries

\* if (attempt < maxRetries - 1) back off and retry; attempt counts from 0
SeekMayRetry(started) == started < maxRetries

\* Mutant: finalize never sees its consumers settle.
NeverSettled(pending) == FALSE

\* Promise.all(pendingEncodes) is fulfilled once every consumer has settled.
AllSettled(pending) == pending = {}

\* video.ended
videoEnded == currentTime >= cfg.duration

\* extractFrames / extractFramesStreaming: the guard before any playback.
InvalidJob == cfg.duration <= 0 \/ totalFrames <= 0 \/ ~cfg.finite

\* Fresh job state; extractFramesAccelerated(Streaming) up to the first await:
\* video.pause(); video.muted = true; waitForReady or the first seek attempt.
BeginJob(kind) ==
    /\ xkind' = kind
    /\ videoPaused' = TRUE
    /\ IF readyState < 2
       THEN xpc' = "waitReady" /\ attempt' = 0
       ELSE xpc' = "seeking" /\ attempt' = 1
    /\ framesCaptured' = 0 /\ prevTs' = NoTs /\ lastTs' = NoTs
    /\ nextCaptureTime' = startTime
    /\ settled' = FALSE /\ cbRegistered' = FALSE /\ timeoutArmed' = FALSE
    /\ endedListener' = FALSE /\ errorListener' = FALSE
    /\ promise' = Pending
    /\ endCause' = "none" /\ framesAtEnd' = 0 /\ lateFrames' = FALSE
    /\ consumerFailed' = FALSE
    /\ UNCHANGED <<currentTime, playbackRate, readyState, endedQueued,
                   videoErrored, presented>>

\* waitForReady: 'canplay' arrives, then seekTo starts its first attempt.
WaitForReadyCanPlay ==
    /\ xpc = "waitReady"
    /\ readyState' = 2
    /\ xpc' = "seeking" /\ attempt' = 1
    /\ UNCHANGED <<cfg, sideVars, currentTime, videoPaused, playbackRate, endedQueued,
                   videoErrored, presented, xkind, framesCaptured, prevTs, lastTs,
                   nextCaptureTime, settled, cbRegistered, timeoutArmed,
                   endedListener, errorListener, promise, pendingEncodes,
                   endCause, framesAtEnd, lateFrames, consumerFailed, encVars, expVars>>

\* waitForReady: the 30 s timer rejects with 'Video not ready'.
WaitForReadyTimeout ==
    /\ xpc = "waitReady"
    /\ xpc' = "failed"
    /\ promise' = Reject(promise, "notReady")
    /\ endCause' = "notReady"
    /\ UNCHANGED <<cfg, sideVars, videoVars, xkind, attempt, framesCaptured, prevTs, lastTs,
                   nextCaptureTime, settled, cbRegistered, timeoutArmed,
                   endedListener, errorListener, pendingEncodes, framesAtEnd,
                   lateFrames, consumerFailed, encVars, expVars>>

\* attemptSeek rejects (error event or its own timer); seekTo's catch block.
SeekAttemptFails ==
    /\ xpc = "seeking"
    /\ IF SeekMayRetry(attempt)
       THEN xpc' = "backoff" /\ UNCHANGED <<promise, endCause>>
       ELSE /\ xpc' = "failed"
            /\ promise' = Reject(promise, "seekFailed")
            /\ endCause' = "seekFailed"
    /\ UNCHANGED <<cfg, sideVars, videoVars, xkind, attempt, framesCaptured, prevTs, lastTs,
                   nextCaptureTime, settled, cbRegistered, timeoutArmed,
                   endedListener, errorListener, pendingEncodes, framesAtEnd,
                   lateFrames, consumerFailed, encVars, expVars>>

\* seekTo: the 100 ms backoff elapsed, the next attemptSeek starts.
SeekBackoffElapsed ==
    /\ xpc = "backoff"
    /\ xpc' = "seeking" /\ attempt' = attempt + 1
    /\ UNCHANGED <<cfg, sideVars, videoVars, xkind, framesCaptured, prevTs, lastTs,
                   nextCaptureTime, settled, cbRegistered, timeoutArmed,
                   endedListener, errorListener, promise, pendingEncodes,
                   endCause, framesAtEnd, lateFrames, consumerFailed, encVars, expVars>>

\* attemptSeek resolves on 'seeked'; seekTo returns and extractWith* /
\* streamWith* runs up to video.play().  play() may reject.
SeekedStartPlayback ==
    /\ xpc = "seeking"
    /\ ~endedQueued   \* media events are delivered in the order they were queued
    /\ currentTime' = startTime
    /\ xpc' = "playing"
    /\ endedListener' = TRUE
    /\ errorListener' = cfg.hasRVFC
    /\ cbRegistered' = TRUE
    /\ \E playOk \in BOOLEAN :
         IF playOk
         THEN /\ videoPaused' = FALSE
              /\ presented' = 1   \* the frame at the trim start is presented
              /\ playbackRate' = getPlaybackRate(cfg.fps)
              /\ timeoutArmed' = TRUE
              /\ UNCHANGED <<settled, promise, endCause>>
         ELSE IF xkind = "stream"
         THEN \* fail(err): clearTimeout, pause, playbackRate = 1, reject
              /\ presented' = 0
              /\ settled' = TRUE
              /\ timeoutArmed' = FALSE
              /\ videoPaused' = TRUE /\ playbackRate' = 1
              /\ promise' = Reject(promise, "playRejected")
              /\ endCause' = "playRejected"
         ELSE \* .catch(reject): the timer and the callback stay armed
              /\ presented' = 0
              /\ timeoutArmed' = TRUE
              /\ videoPaused' = TRUE
              /\ playbackRate' = getPlaybackRate(cfg.fps)
              /\ promise' = Reject(promise, "playRejected")
              /\ endCause' = "playRejected"
              /\ UNCHANGED settled
    /\ UNCHANGED <<cfg, sideVars, readyState, endedQueued, videoErrored, xkind, attempt,
                   framesCaptured, prevTs, lastTs, nextCaptureTime,
                   pendingEncodes, framesAtEnd, lateFrames, consumerFailed, encVars, expVars>>


\* The termination test at the top of captureFrame (RVFC) / tick (RAF), and
\* which of its disjuncts fired first.
EndReached ==
    \/ framesCaptured >= totalFrames
    \/ currentTime >= endTime
    \/ (~cfg.hasRVFC /\ (videoPaused \/ videoEnded))
EndReason ==
    IF framesCaptured >= totalFrames THEN "count"
    ELSE IF currentTime >= endTime THEN "trimEnd"
    ELSE IF videoPaused THEN "paused" ELSE "ended"

\* The two newest timestamps after k frames were captured at time ct.
PrevAfter(k, ct) == IF k = 0 THEN prevTs
                    ELSE IF k = 1 THEN lastTs ELSE FrameTimestamp(ct)
LastAfter(k, ct) == IF k = 0 THEN lastTs ELSE FrameTimestamp(ct)

\* streamWithRVFC.finalize / streamWithRAF.finalize
StreamFinalize(cause) ==
    IF settled
    THEN UNCHANGED <<settled, timeoutArmed, videoPaused, playbackRate, promise,
                     endCause, framesAtEnd>>
    ELSE /\ settled' = TRUE
         /\ timeoutArmed' = FALSE
         /\ videoPaused' = TRUE
         /\ playbackRate' = 1
         /\ promise' = IF AllSettled(pendingEncodes)
                       THEN Resolve(promise, framesCaptured) ELSE promise
         /\ endCause' = cause
         /\ framesAtEnd' = framesCaptured

\* streamWithRVFC.fail / streamWithRAF.fail, n = framesCaptured at the call
StreamFail(why, n) ==
    IF settled
    THEN UNCHANGED <<settled, timeoutArmed, videoPaused, playbackRate, promise,
                     endCause, framesAtEnd>>
    ELSE /\ settled' = TRUE
         /\ timeoutArmed' = FALSE
         /\ videoPaused' = TRUE
         /\ playbackRate' = 1
         /\ promise' = Reject(promise, why)
         /\ endCause' = why
         /\ framesAtEnd' = n

\* extractWithRVFC.done / extractWithRAF.done
BufferDone(cause) ==
    /\ timeoutArmed' = FALSE
    /\ videoPaused' = TRUE
    /\ playbackRate' = 1
    /\ promise' = Resolve(promise, framesCaptured)
    /\ endCause' = IF endCause = "none" THEN cause ELSE endCause
    /\ framesAtEnd' = IF endCause = "none" THEN framesCaptured ELSE framesAtEnd

\* encodeFrame, up to its await: does the call throw (encoder errored,
\* closed, or VideoFrame / encode throwing)?
EncodeThrows(throws) == throws \/ encoderError \/ closed

\* Mutant: the catch handler swallows the consumer's error.
ConsumerFailureIgnored(bad) == FALSE

\* Promise.resolve(onFrame(frame)).catch((err) => fail(err)): a consumer that
\* failed calls fail.
ConsumerFailureFails(bad) == bad

\* if (this.encoder.encodeQueueSize > ENCODE_QUEUE_BACKPRESSURE) await flush
AwaitsFlush(queueSize) == queueSize > ENCODE_QUEUE_BACKPRESSURE

\* Frames n0 .. n1-1 are handed to the consumer in one callback: the ones whose
\* encodeFrame suspends on encoder.flush().
NewlyPending(n0, n1) ==
    {i \in n0 .. (n1 - 1) : AwaitsFlush((frameIndex + (i - n0) + 1) - encodedOut)}

\* captureFrame of streamWithRVFC / tick of streamWithRAF
StreamCaptureFrame ==
    /\ xkind = "stream" /\ xpc = "playing" /\ cbRegistered
    /\ cfg.hasRVFC => presented > 0
    /\ presented' = 0
    /\ IF settled
       THEN /\ cbRegistered' = FALSE
            /\ UNCHANGED <<settled, timeoutArmed, videoPaused, playbackRate, promise,
                           endCause, framesAtEnd, framesCaptured, prevTs, lastTs,
                           nextCaptureTime, pendingEncodes, lateFrames, consumerFailed, frameIndex,
                           producedWhileFlushing, events, hwError>>
       ELSE IF EndReached
       THEN /\ StreamFinalize(EndReason)
            /\ cbRegistered' = FALSE
            /\ UNCHANGED <<framesCaptured, prevTs, lastTs, nextCaptureTime,
                           pendingEncodes, lateFrames, consumerFailed, frameIndex, producedWhileFlushing,
                           events, hwError>>
       ELSE LET n1 == CaptureCount(framesCaptured, nextCaptureTime, currentTime)
                k == n1 - framesCaptured
            IN  \E throws \in IF k > 0 THEN BOOLEAN ELSE {FALSE} :
                  LET bad == k > 0 /\ EncodeThrows(throws)
                      newPending == IF bad THEN {} ELSE NewlyPending(framesCaptured, n1)
                  IN  /\ framesCaptured' = n1
                      /\ nextCaptureTime' = IF k > 0
                                            THEN startTime + n1 * frameInterval(cfg.fps)
                                            ELSE nextCaptureTime
                      /\ prevTs' = PrevAfter(k, currentTime)
                      /\ lastTs' = LastAfter(k, currentTime)
                      /\ events' = IF k > 0 THEN Emit(events, "extract") ELSE events
                      /\ lateFrames' = (lateFrames \/ (k > 0 /\ endCause # "none"))
                      /\ consumerFailed' = (consumerFailed \/ bad)
                      /\ frameIndex' = IF bad THEN frameIndex ELSE frameIndex + k
                      /\ pendingEncodes' = pendingEncodes \cup newPending
                      /\ producedWhileFlushing' =
                            (producedWhileFlushing
                             \/ (k > 0 /\ pendingEncodes # {})
                             \/ (\E i \in newPending : i < n1 - 1))
                      /\ hwError' = (hwError \/ bad)
                      /\ IF ConsumerFailureFails(bad)
                         THEN /\ StreamFail("consumerFailed", n1)
                              /\ cbRegistered' = cfg.hasRVFC
                         ELSE /\ cbRegistered' = TRUE
                              /\ UNCHANGED <<settled, timeoutArmed, videoPaused,
                                             playbackRate, promise, endCause,
                                             framesAtEnd>>
    /\ UNCHANGED <<cfg, sideVars, currentTime, readyState, endedQueued, videoErrored, xkind,
                   xpc, attempt, endedListener, errorListener, encodedOut,
                   encoderError, closed, epc, blob, hwFailed, outVars>>

\* captureFrame of extractWithRVFC / tick of extractWithRAF
BufferCaptureFrame ==
    /\ xkind = "buffer" /\ xpc = "playing" /\ cbRegistered
    /\ cfg.hasRVFC => presented > 0
    /\ presented' = 0
    /\ IF EndReached
       THEN /\ BufferDone(EndReason)
            /\ cbRegistered' = FALSE
            /\ UNCHANGED <<framesCaptured, prevTs, lastTs, nextCaptureTime,
                           lateFrames, consumerFailed, events>>
       ELSE LET n1 == CaptureCount(framesCaptured, nextCaptureTime, currentTime)
                k == n1 - framesCaptured
            IN  /\ framesCaptured' = n1
                /\ nextCaptureTime' = IF k > 0
                                      THEN startTime + n1 * frameInterval(cfg.fps)
                                      ELSE nextCaptureTime
                /\ prevTs' = PrevAfter(k, currentTime)
                /\ lastTs' = LastAfter(k, currentTime)
                /\ events' = IF k > 0 THEN Emit(events, "extract") ELSE events
                /\ lateFrames' = (lateFrames \/ (k > 0 /\ endCause # "none"))
                /\ consumerFailed' = consumerFailed
                /\ cbRegistered' = TRUE
                /\ UNCHANGED <<timeoutArmed, videoPaused, playbackRate, promise,
                               endCause, framesAtEnd>>
    /\ UNCHANGED <<cfg, sideVars, currentTime, readyState, endedQueued, videoErrored, xkind,
                   xpc, attempt, settled, endedListener, errorListener,
                   pendingEncodes, encVars, epc, blob, hwFailed, hwError, outVars>>


\* The 120 s safety timer of streamWithRVFC / streamWithRAF.  finalize and
\* fail of the RAF variant also cancel the animation frame.
StreamTimeout ==
    /\ xkind = "stream" /\ timeoutArmed
    /\ IF TimeoutKeepsPartial(framesCaptured)
       THEN StreamFinalize("timeout")
       ELSE StreamFail("timeout", framesCaptured)
    /\ cbRegistered' = (cbRegistered /\ cfg.hasRVFC)
    /\ UNCHANGED <<cfg, sideVars, currentTime, readyState, endedQueued, videoErrored, presented,
                   xkind, xpc, attempt, framesCaptured, prevTs, lastTs,
                   nextCaptureTime, endedListener, errorListener, pendingEncodes,
                   lateFrames, consumerFailed, encVars, expVars>>

\* The 120 s safety timer of extractWithRVFC / extractWithRAF.
BufferTimeout ==
    /\ xkind = "buffer" /\ timeoutArmed
    /\ timeoutArmed' = FALSE
    /\ cbRegistered' = (cbRegistered /\ cfg.hasRVFC)
    /\ videoPaused' = TRUE
    /\ playbackRate' = 1
    /\ promise' = IF TimeoutKeepsPartial(framesCaptured)
                  THEN Resolve(promise, framesCaptured)
                  ELSE Reject(promise, "timeout")
    /\ endCause' = IF endCause = "none" THEN "timeout" ELSE endCause
    /\ framesAtEnd' = IF endCause = "none" THEN framesCaptured ELSE framesAtEnd
    /\ UNCHANGED <<cfg, sideVars, currentTime, readyState, endedQueued, videoErrored, presented,
                   xkind, xpc, attempt, framesCaptured, prevTs, lastTs,
                   nextCaptureTime, settled, endedListener, errorListener,
                   pendingEncodes, lateFrames, consumerFailed, encVars, expVars>>

\* The video plays on by one tick and presents a frame; reaching the end of
\* the clip queues the 'ended' event.
VideoAdvance ==
    /\ ~videoPaused /\ ~videoErrored
    /\ currentTime < cfg.duration
    /\ presented < MaxLag
    /\ currentTime' = currentTime + 1
    /\ presented' = presented + 1
    /\ endedQueued' = (endedQueued \/ currentTime + 1 >= cfg.duration)
    /\ UNCHANGED <<cfg, sideVars, videoPaused, playbackRate, readyState, videoErrored,
                   jobVars, encVars, expVars>>

\* 'ended' is delivered: the element is paused and the job's once-listener
\* (finalize or done) runs.
VideoEnded ==
    /\ endedQueued
    /\ endedQueued' = FALSE
    /\ IF ~endedListener \/ xpc # "playing"
       THEN /\ videoPaused' = TRUE
            /\ UNCHANGED <<playbackRate, settled, timeoutArmed, promise, endCause,
                           framesAtEnd, cbRegistered, endedListener>>
       ELSE /\ endedListener' = FALSE
            /\ IF xkind = "stream"
               THEN StreamFinalize("ended")
               ELSE BufferDone("ended") /\ UNCHANGED settled
            /\ cbRegistered' = (cbRegistered /\ cfg.hasRVFC)
    /\ UNCHANGED <<cfg, sideVars, currentTime, readyState, videoErrored, presented, xkind, xpc,
                   attempt, framesCaptured, prevTs, lastTs, nextCaptureTime,
                   errorListener, pendingEncodes, lateFrames, consumerFailed, encVars, expVars>>

\* The element reports a media error during playback; the RVFC variants listen
\* for it (once): fail(...) when streaming, clearTimeout + reject when buffered.
VideoError ==
    /\ xpc = "playing" /\ ~videoPaused /\ ~videoErrored
    /\ videoErrored' = TRUE
    /\ IF ~errorListener
       THEN UNCHANGED <<settled, timeoutArmed, videoPaused, playbackRate, promise,
                        endCause, framesAtEnd, errorListener>>
       ELSE /\ errorListener' = FALSE
            /\ IF xkind = "stream"
               THEN StreamFail("videoError", framesCaptured)
               ELSE /\ timeoutArmed' = FALSE
                    /\ promise' = Reject(promise, "videoError")
                    /\ endCause' = IF endCause = "none" THEN "videoError" ELSE endCause
                    /\ framesAtEnd' = IF endCause = "none" THEN framesCaptured
                                      ELSE framesAtEnd
                    /\ UNCHANGED <<settled, videoPaused, playbackRate>>
    /\ UNCHANGED <<cfg, sideVars, currentTime, readyState, endedQueued, presented, xkind, xpc,
                   attempt, framesCaptured, prevTs, lastTs, nextCaptureTime,
                   cbRegistered, endedListener, pendingEncodes, lateFrames, consumerFailed, encVars,
                   expVars>>

\* finalize's Promise.all(pendingEncodes).then(resolve) once the last pending
\* consumer has settled.
StreamAllEncodesSettled ==
    /\ xkind = "stream" /\ settled
    /\ promise.state = "pending"
    /\ AllSettled(pendingEncodes)
    /\ promise' = Resolve(promise, framesCaptured)
    /\ UNCHANGED <<cfg, sideVars, videoVars, xkind, xpc, attempt, framesCaptured, prevTs, lastTs,
                   nextCaptureTime, settled, cbRegistered, timeoutArmed,
                   endedListener, errorListener, pendingEncodes, endCause,
                   framesAtEnd, lateFrames, consumerFailed, encVars, expVars>>

\* ======================================================= WebCodecsEncoder
\* The codec emits one chunk (output callback): the queue shrinks by one.
EncoderOutput ==
    /\ encodedOut < frameIndex
    /\ ~encoderError /\ ~closed
    /\ encodedOut' = encodedOut + 1
    /\ UNCHANGED <<cfg, sideVars, videoVars, jobVars, frameIndex, encoderError, closed,
                   producedWhileFlushing, expVars>>

\* encoder.flush() of consumer i is fulfilled; encodeFrame re-checks the error
\* flag and returns, the consumer's promise is fulfilled.
FlushResolved(i) ==
    /\ i \in pendingEncodes
    /\ ~encoderError /\ ~closed
    /\ encodedOut > i
    /\ pendingEncodes' = pendingEncodes \ {i}
    /\ UNCHANGED <<cfg, sideVars, videoVars, xkind, xpc, attempt, framesCaptured, prevTs, lastTs,
                   nextCaptureTime, settled, cbRegistered, timeoutArmed,
                   endedListener, errorListener, promise, endCause, framesAtEnd,
                   lateFrames, consumerFailed, encVars, expVars>>

\* The VideoEncoder error callback: encoderError is recorded, every awaited
\* flush is rejected, and each failed consumer calls fail(err).
EncoderErrorCallback ==
    /\ epc \in {"hwExtract", "hwFinalize"}
    /\ ~encoderError /\ ~closed
    /\ encoderError' = TRUE
    /\ hwError' = TRUE
    /\ pendingEncodes' = {}
    /\ consumerFailed' = (consumerFailed \/ pendingEncodes # {})
    /\ IF pendingEncodes # {}
       THEN StreamFail("consumerFailed", framesCaptured)
       ELSE UNCHANGED <<settled, timeoutArmed, videoPaused, playbackRate, promise,
                        endCause, framesAtEnd>>
    /\ cbRegistered' = IF pendingEncodes # {} /\ ~settled
                       THEN (cbRegistered /\ cfg.hasRVFC) ELSE cbRegistered
    /\ UNCHANGED <<cfg, sideVars, currentTime, readyState, endedQueued, videoErrored, presented,
                   xkind, xpc, attempt, framesCaptured, prevTs, lastTs,
                   nextCaptureTime, endedListener, errorListener, lateFrames,
                   frameIndex, encodedOut, closed, producedWhileFlushing, epc,
                   events, blob, hwFailed, outVars>>

\* ====================================== exportVideo / runAutomationCommand
NoBlob == [producer |-> "none", frames |-> 0]

\* extractFrames / extractFramesStreaming: an invalid job returns an empty
\* result at once, any other starts the accelerated extraction.
StartExtraction(kind) ==
    IF InvalidJob
    THEN /\ xkind' = kind /\ xpc' = "idle" /\ attempt' = 0
         /\ framesCaptured' = 0 /\ prevTs' = NoTs /\ lastTs' = NoTs
         /\ nextCaptureTime' = startTime
         /\ settled' = FALSE /\ cbRegistered' = FALSE /\ timeoutArmed' = FALSE
         /\ endedListener' = FALSE /\ errorListener' = FALSE
         /\ promise' = Resolve(Pending, 0)
         /\ endCause' = "invalid" /\ framesAtEnd' = 0 /\ lateFrames' = FALSE
         /\ consumerFailed' = FALSE
         /\ UNCHANGED videoVars
    ELSE BeginJob(kind)

\* The catch block of the streaming path followed by the FFmpeg path up to its
\* await of processor.extractFrames.  encoder.close() rejects every flush
\* still awaited (the settled job ignores the consumers' fail calls); the
\* encoder is dropped afterwards, so its counters are cleared.
FallBackToFfmpeg ==
    /\ closed' = TRUE
    /\ pendingEncodes' = {}
    /\ frameIndex' = 0 /\ encodedOut' = 0
    /\ hwFailed' = TRUE
    /\ epc' = "swExtract"
    /\ StartExtraction("buffer")

\* loadVideo: !Number.isFinite(duration) || duration <= 0
BadDuration == ~cfg.finite \/ cfg.duration <= 0

\* runAutomationCommand: the job parsed and the video loaded; 'load' 1 is
\* emitted and exportVideo is called.  A load failure (unreadable source,
\* invalid duration) fails the command.
RunnerLoaded ==
    /\ epc = "load" /\ cfg.entry = "cli"
    /\ \E ok \in BOOLEAN :
         IF ok /\ ~BadDuration
         THEN epc' = "select" /\ events' = Emit(events, "load") /\ error' = error
         ELSE epc' = "failed" /\ events' = events /\ error' = "load"
    /\ UNCHANGED <<cfg, sideVars, videoVars, jobVars, encVars, blob, hwFailed, hwError,
                   audioBlob, hasAudio>>

\* handleExport of the export dialog: the save path was chosen and
\* exportVideo is called on the video element as it is.
HandleExport ==
    /\ epc = "load" /\ cfg.entry = "ui"
    /\ epc' = "select"
    /\ UNCHANGED <<cfg, sideVars, videoVars, jobVars, encVars, events, blob, hwFailed,
                   hwError, outVars>>

\* exportVideo, case 'mp4': encoder selection and the start of extraction.
ExportSelectEncoder ==
    /\ epc = "select"
    /\ IF cfg.webCodecs
       THEN /\ epc' = "hwExtract"
            /\ StartExtraction("stream")
       ELSE /\ epc' = "swExtract"
            /\ StartExtraction("buffer")
    /\ UNCHANGED <<cfg, sideVars, pendingEncodes, encVars, events, blob, hwFailed, hwError,
                   outVars>>

\* encoder.finalize() up to its await: throwIfEncoderErrored
throwIfEncoderErrored(err) == err

\* extractFramesStreaming settled.  Fulfilled: 'extract' 1 and 'encode' 0.5
\* are reported and encoder.finalize() is called.  Rejected, or finalize
\* throws at once: the catch block and the FFmpeg path.
HwExtractSettled ==
    /\ epc = "hwExtract"
    /\ promise.state # "pending"
    /\ IF promise.state = "resolved"
       THEN /\ events' = Emit(Emit(events, "extract"), "encode")
            /\ IF throwIfEncoderErrored(encoderError)
               THEN FallBackToFfmpeg
               ELSE /\ epc' = "hwFinalize"
                    /\ UNCHANGED <<videoVars, xkind, xpc, attempt, framesCaptured,
                                   prevTs, lastTs, nextCaptureTime, settled,
                                   cbRegistered, timeoutArmed, endedListener,
                                   errorListener, promise, endCause, framesAtEnd,
                                   lateFrames, consumerFailed, closed, hwFailed, pendingEncodes,
                                   frameIndex, encodedOut>>
       ELSE /\ events' = events
            /\ FallBackToFfmpeg
    /\ UNCHANGED <<cfg, sideVars, encoderError, producedWhileFlushing, blob, hwError, outVars>>

\* encoder.finalize() after await this.encoder.flush(): the flush was rejected
\* or the error flag is set (catch block, FFmpeg path), or the muxer is
\* finalized and the MP4 blob returned; 'encode' 0.8 is reported.
HwFinalizeFlushed ==
    /\ epc = "hwFinalize"
    /\ encoderError \/ encodedOut = frameIndex
    /\ IF encoderError
       THEN /\ FallBackToFfmpeg
            /\ UNCHANGED <<blob, events>>
       ELSE /\ closed' = TRUE
            /\ blob' = [producer |-> "webcodecs", frames |-> frameIndex]
            /\ events' = Emit(events, "encode")
            /\ epc' = "hwMux"
            /\ UNCHANGED <<videoVars, xkind, xpc, attempt, framesCaptured, prevTs,
                           lastTs, nextCaptureTime, settled, cbRegistered,
                           timeoutArmed, endedListener, errorListener, promise,
                           endCause, framesAtEnd, lateFrames, consumerFailed, hwFailed,
                           pendingEncodes, frameIndex, encodedOut>>
    /\ UNCHANGED <<cfg, sideVars, encoderError, producedWhileFlushing, hwError, outVars>>

\* muxMp4WithSourceAudio returned the muxed MP4 (its audio map is optional:
\* '1:a:0?'), or threw and the catch keeps the video-only MP4; 'encode' 1.
HwMuxDone ==
    /\ epc = "hwMux"
    /\ \E muxed \in BOOLEAN : hasAudio' = muxed
    /\ events' = Emit(events, "encode")
    /\ epc' = "exported"
    /\ UNCHANGED <<cfg, sideVars, videoVars, jobVars, encVars, blob, hwFailed, hwError,
                   audioBlob, error>>

\* processor.extractFrames settled: 'extract' 1, await audioPromise (a WAV
\* blob, or null when the extraction failed) and on to encodeMp4; or the
\* export fails.
SwExtractSettled ==
    /\ epc = "swExtract"
    /\ promise.state # "pending"
    /\ IF promise.state = "resolved"
       THEN /\ epc' = "swEncode" /\ events' = Emit(events, "extract")
            /\ \E a \in {"null", "blob"} : audioBlob' = a
            /\ error' = error
       ELSE /\ epc' = "failed" /\ events' = events
            /\ audioBlob' = audioBlob /\ error' = "extract"
    /\ UNCHANGED <<cfg, sideVars, videoVars, jobVars, encVars, blob, hwFailed, hwError,
                   hasAudio>>

\* (variant: the audio steps run without the 'if (audioBlob)' test)
EncodeOutcomesAudioUnguarded(audio) == {"ok", "encode", "audioMux"}

\* The steps of encodeMp4 that can throw: the frame encode itself, and, only
\* with a non-null audioBlob, writing audio.wav and mapping '1:a'.
EncodeOutcomes(audio) ==
    {"ok", "encode"} \cup (IF audio = "blob" THEN {"audioMux"} ELSE {})

\* encodeMp4: throws 'No frames to encode' on an empty list; otherwise FFmpeg
\* encodes the frames array (reporting 'encode') together with the audio, or
\* a step throws and the export fails.
SwEncodeDone ==
    /\ epc = "swEncode"
    /\ \E outcome \in EncodeOutcomes(audioBlob) :
         IF framesCaptured = 0
         THEN /\ epc' = "failed" /\ error' = "noFrames"
              /\ UNCHANGED <<blob, events, hasAudio>>
         ELSE IF outcome = "ok"
         THEN /\ blob' = [producer |-> "ffmpeg", frames |-> framesCaptured]
              /\ hasAudio' = (audioBlob = "blob")
              /\ events' = Emit(events, "encode")
              /\ epc' = "exported" /\ error' = error
         ELSE /\ epc' = "failed" /\ error' = outcome
              /\ events' = Emit(events, "encode")
              /\ UNCHANGED <<blob, hasAudio>>
    /\ UNCHANGED <<cfg, sideVars, videoVars, jobVars, encVars, hwFailed, hwError, audioBlob>>

\* runAutomationCommand (and handleExport) after exportVideo: 'write' 0,
\* writeFile, 'write' 1.
RunnerWrite ==
    /\ epc = "exported"
    /\ \E ok \in BOOLEAN :
         IF ok
         THEN epc' = "done" /\ events' = Emit(events, "write") /\ error' = error
         ELSE epc' = "failed" /\ events' = Emit(events, "write") /\ error' = "write"
    /\ UNCHANGED <<cfg, sideVars, videoVars, jobVars, encVars, blob, hwFailed, hwError,
                   audioBlob, hasAudio>>


\* ================================================ the automation CLI session
\* parseAutomationCli: malformed arguments, or a run / inspect command.
CliSessions ==
    [mode : {"invalid"}, command : {"run"}, showUi : {FALSE}]
    \cup [mode : {"automation"}, command : {"run", "inspect"}, showUi : BOOLEAN]

\* emitJsonEvent(jobId, type, payload)
JsonEvent(type, phase, code) == [type |-> type, phase |-> phase, code |-> code]

\* (variant: every failure exits with code 3)
FailExitCodeAlwaysThree(code) == 3

\* finishAutomation(payload?.code === 2 ? 2 : 3)
FailExitCode(code) == IF code = 2 THEN 2 ELSE 3

\* error instanceof JobValidationError ? 2 : 3
FailureCode(validation) == IF validation THEN 2 ELSE 3

\* No CLI session is running (the application was started without a command).
CliIdle ==
    /\ cli = [mode |-> "ui", command |-> "run", showUi |-> TRUE]
    /\ mainPc = "boot" /\ exitCode = 0 /\ stdout = <<>>
    /\ automationFinished = FALSE /\ automationTimeout = FALSE
    /\ ipc = <<>> /\ runnerPc = "idle" /\ failedPhase = "none"
    /\ commandSucceeded = FALSE
    /\ outputFile = "absent" /\ outputChecked = "unchecked"

\* (variant: finishAutomation without its automationFinished guard)
finishAutomationUnguarded(code) ==
    /\ automationFinished' = TRUE
    /\ automationTimeout' = FALSE
    /\ exitCode' = code
    /\ mainPc' = "exiting"

\* finishAutomation(exitCode): returns when automationFinished is set;
\* otherwise sets it, clears the timeout, stores the exit code and calls
\* app.exit, after which the main process still runs until it has exited.
finishAutomation(code) ==
    IF automationFinished
    THEN UNCHANGED <<automationFinished, automationTimeout, exitCode, mainPc>>
    ELSE /\ automationFinished' = TRUE
         /\ automationTimeout' = FALSE
         /\ exitCode' = code
         /\ mainPc' = "exiting"

\* The main process is handling events: from startAutomation until the exit
\* requested by app.exit has completed.
MainHandlesEvents == mainPc \in {"running", "exiting"}

\* mode === 'invalid': job_error with code 2 and process.exit(2)
InvalidCli ==
    /\ mainPc = "boot" /\ cli.mode = "invalid"
    /\ stdout' = Append(stdout, JsonEvent("job_error", "load", 2))
    /\ exitCode' = 2 /\ mainPc' = "exited"
    /\ UNCHANGED <<coreVars, settingVars, pixelVars, ditherVars, uiVars, outputVars, cli, automationFinished, automationTimeout, ipc,
                   runnerPc, failedPhase, commandSucceeded>>

\* did-finish-load: startAutomation writes session_start, arms the timeout
\* and sends automation:start to the renderer.
StartAutomation ==
    /\ mainPc = "boot" /\ cli.mode = "automation" /\ ~automationFinished
    /\ stdout' = Append(stdout, JsonEvent("session_start", "none", 0))
    /\ automationTimeout' = TRUE
    /\ runnerPc' = "start"
    /\ mainPc' = "running"
    /\ UNCHANGED <<coreVars, settingVars, pixelVars, ditherVars, uiVars, outputVars, cli, exitCode, automationFinished, ipc, failedPhase,
                   commandSucceeded>>

\* The automation timeout fires.
AutomationTimedOut ==
    /\ MainHandlesEvents /\ automationTimeout
    /\ stdout' = Append(stdout, JsonEvent("job_error", "load", 124))
    /\ finishAutomation(124)
    /\ UNCHANGED <<coreVars, settingVars, pixelVars, ditherVars, uiVars, outputVars, cli, ipc, runnerPc, failedPhase, commandSucceeded>>

\* ipcMain.on('automation:event')
OnAutomationEvent ==
    /\ MainHandlesEvents /\ ipc # <<>> /\ Head(ipc).channel = "event"
    /\ ipc' = Tail(ipc)
    /\ stdout' = IF automationFinished THEN stdout
                 ELSE Append(stdout, JsonEvent(Head(ipc).type, Head(ipc).phase, 0))
    /\ UNCHANGED <<coreVars, settingVars, pixelVars, ditherVars, uiVars, outputVars, cli, mainPc, exitCode, automationFinished,
                   automationTimeout, runnerPc, failedPhase, commandSucceeded>>

\* ipcMain.on('automation:done')
OnAutomationDone ==
    /\ MainHandlesEvents /\ ipc # <<>> /\ Head(ipc).channel = "done"
    /\ ipc' = Tail(ipc)
    /\ finishAutomation(0)
    /\ UNCHANGED <<coreVars, settingVars, pixelVars, ditherVars, uiVars, outputVars, cli, stdout, runnerPc, failedPhase, commandSucceeded>>

\* ipcMain.on('automation:fail')
OnAutomationFail ==
    /\ MainHandlesEvents /\ ipc # <<>> /\ Head(ipc).channel = "fail"
    /\ ipc' = Tail(ipc)
    /\ IF automationFinished
       THEN UNCHANGED <<automationFinished, automationTimeout, exitCode, mainPc,
                        stdout>>
       ELSE /\ stdout' = Append(stdout, JsonEvent("job_error", "load", Head(ipc).code))
            /\ finishAutomation(FailExitCode(Head(ipc).code))
    /\ UNCHANGED <<coreVars, settingVars, pixelVars, ditherVars, uiVars, outputVars, cli, runnerPc, failedPhase, commandSucceeded>>

\* The exit requested by app.exit completes.
AppExited ==
    /\ mainPc = "exiting"
    /\ mainPc' = "exited"
    /\ UNCHANGED <<coreVars, settingVars, pixelVars, ditherVars, uiVars, outputVars, cli, exitCode, stdout, automationFinished,
                   automationTimeout, ipc, runnerPc, failedPhase, commandSucceeded>>

\* app.on('window-all-closed'): the shown window was closed (title bar close
\* button, window:close); app.quit() leaves process.exitCode as it is.
WindowAllClosed ==
    /\ mainPc = "running" /\ cli.showUi
    /\ mainPc' = "exited"
    /\ UNCHANGED <<coreVars, settingVars, pixelVars, ditherVars, uiVars, outputVars, cli, exitCode, stdout, automationFinished,
                   automationTimeout, ipc, runnerPc, failedPhase, commandSucceeded>>

\* Another process (a second run of the same job, for one) stores a file at
\* outputPath while this session is running.
OutputCreatedElsewhere ==
    /\ mainPc = "running" /\ outputFile = "absent"
    /\ outputFile' = "elsewhere"
    /\ UNCHANGED <<coreVars, settingVars, pixelVars, ditherVars, uiVars, cli, mainPc, exitCode, stdout,
                   automationFinished, automationTimeout, ipc, runnerPc, failedPhase,
                   commandSucceeded, outputChecked>>

\* ---- the renderer: bootstrapAutomation's listener and runAutomationCommand
Progress(phase) == [channel |-> "event", type |-> "progress", phase |-> phase, code |-> 0]
Notice(type) == [channel |-> "event", type |-> type, phase |-> "none", code |-> 0]
\* notifyAutomationDone()
Done == [channel |-> "done", type |-> "none", phase |-> "none", code |-> 0]
\* notifyAutomationFail({error, code})
Fail(code) == [channel |-> "fail", type |-> "none", phase |-> "none", code |-> code]

\* The command threw in the given phase: the catch of bootstrapAutomation.
CommandThrows(sent, phase, validation) ==
    /\ ipc' = ipc \o sent \o <<Fail(FailureCode(validation))>>
    /\ failedPhase' = phase
    /\ runnerPc' = IF validation THEN "rejected" ELSE "failed"
    /\ UNCHANGED commandSucceeded

\* The command returned.
CommandReturns(sent) ==
    /\ ipc' = ipc \o sent \o <<Done>>
    /\ commandSucceeded' = TRUE
    /\ runnerPc' = "returned"
    /\ UNCHANGED failedPhase

\* The command goes on to its next await.
CommandContinues(sent, pc) ==
    /\ ipc' = ipc \o sent
    /\ runnerPc' = pc
    /\ UNCHANGED <<failedPhase, commandSucceeded>>

\* ipcMain.handle('file:exists'): access(filePath, F_OK) succeeded
fileExists(file) == file # "absent"

\* parseAndValidateJob: start.command === 'run' && outputPath, and
\* api.fileExists(outputPath) answered true: 'outputPath already exists'
OutputPathTaken(command, exists) == command = "run" /\ exists

\* emit progress 'load' 0; parseAndValidateJob: the job file, the input path
\* and the settings are valid or not; then, for a run command, the check
\* that nothing exists at outputPath.
ParseAndValidateJob ==
    /\ mainPc = "running" /\ runnerPc = "start"
    /\ \E valid \in BOOLEAN :
         /\ IF valid /\ ~OutputPathTaken(cli.command, fileExists(outputFile))
            THEN CommandContinues(<<Progress("load")>>, "load")
            ELSE CommandThrows(<<Progress("load")>>, "load", TRUE)
         /\ outputChecked' = IF valid /\ cli.command = "run"
                              THEN IF fileExists(outputFile) THEN "exists" ELSE "free"
                              ELSE outputChecked
    /\ UNCHANGED outputFile
    /\ UNCHANGED <<coreVars, settingVars, pixelVars, ditherVars, uiVars, cli, mainPc, exitCode, stdout, automationFinished,
                   automationTimeout>>

\* loadVideo, job_validated, progress 'load' 1; inspect returns here
LoadVideo ==
    /\ mainPc = "running" /\ runnerPc = "load"
    /\ \E ok \in BOOLEAN :
         IF ~ok THEN CommandThrows(<<>>, "load", FALSE)
         ELSE IF cli.command = "inspect"
         THEN CommandReturns(<<Notice("job_validated"), Progress("load"),
                               Notice("inspect_result")>>)
         ELSE CommandContinues(<<Notice("job_validated"), Progress("load")>>,
                               "extract")
    /\ UNCHANGED <<coreVars, settingVars, pixelVars, ditherVars, uiVars, outputVars, cli, mainPc, exitCode, stdout, automationFinished,
                   automationTimeout>>

\* exportVideo up to the end of frame extraction
ExportExtract ==
    /\ mainPc = "running" /\ runnerPc = "extract"
    /\ \E ok \in BOOLEAN :
         IF ok THEN CommandContinues(<<Progress("extract")>>, "encode")
         ELSE CommandThrows(<<Progress("extract")>>, "extract", FALSE)
    /\ UNCHANGED <<coreVars, settingVars, pixelVars, ditherVars, uiVars, outputVars, cli, mainPc, exitCode, stdout, automationFinished,
                   automationTimeout>>

\* exportVideo from the encode to its return
ExportEncode ==
    /\ mainPc = "running" /\ runnerPc = "encode"
    /\ \E ok \in BOOLEAN :
         IF ok THEN CommandContinues(<<Progress("encode")>>, "write")
         ELSE CommandThrows(<<Progress("encode")>>, "encode", FALSE)
    /\ UNCHANGED <<coreVars, settingVars, pixelVars, ditherVars, uiVars, outputVars, cli, mainPc, exitCode, stdout, automationFinished,
                   automationTimeout>>

\* progress 'write' 0, writeFile, progress 'write' 1, job_complete.
\* ipcMain.handle('file:write'): writeFile(filePath, Buffer.from(data))
\* replaces whatever is stored at the path, or fails and leaves it.
WriteOutput ==
    /\ mainPc = "running" /\ runnerPc = "write"
    /\ \E ok \in BOOLEAN :
         IF ok THEN /\ CommandReturns(<<Progress("write"), Notice("job_complete")>>)
                    /\ outputFile' = "export"
         ELSE /\ CommandThrows(<<Progress("write")>>, "write", FALSE)
              /\ UNCHANGED outputFile
    /\ UNCHANGED outputChecked
    /\ UNCHANGED <<coreVars, settingVars, pixelVars, ditherVars, uiVars, cli, mainPc, exitCode, stdout, automationFinished,
                   automationTimeout>>


\* ============================================== useFloydSteinberg (dither)
\* pendingRejectRef.current = null
NoRequest == 0

\* The hook as mounted: no worker, no request.
DitherIdle ==
    /\ requests = <<>> /\ pendingRejectRef = NoRequest /\ workerRef = FALSE
    /\ listeners = {} /\ workerInbox = <<>>

\* reject / resolve applied to the promises of a set of requests
RejectAll(ps, ids, why) ==
    [i \in DOMAIN ps |-> IF i \in ids THEN Reject(ps[i], why) ELSE ps[i]]
ResolveAll(ps, ids, v) ==
    [i \in DOMAIN ps |-> IF i \in ids THEN Resolve(ps[i], v) ELSE ps[i]]

\* processFrame(pixels, ...): a stored reject is called and cleared, the
\* worker is created if there is none, the new reject is stored, the two
\* listeners are added and the pixels are posted.
ProcessFrame ==
    /\ Len(requests) < MaxRequests
    /\ LET id == Len(requests) + 1
           superseded == IF pendingRejectRef = NoRequest THEN {}
                         ELSE {pendingRejectRef}
       IN /\ requests' = Append(RejectAll(requests, superseded, "superseded"), Pending)
          /\ pendingRejectRef' = id
          /\ listeners' = listeners \cup {id}
          /\ workerInbox' = Append(workerInbox, id)
    /\ workerRef' = TRUE
    /\ UNCHANGED <<coreVars, settingVars, pixelVars, cliVars, uiVars>>

\* The worker answers the oldest posted request: every attached
\* handleMessage runs (removes its listeners, clears pendingRejectRef and
\* resolves its promise with the answer's pixels).
WorkerAnswers ==
    /\ workerRef /\ workerInbox # <<>>
    /\ workerInbox' = Tail(workerInbox)
    /\ requests' = ResolveAll(requests, listeners, Head(workerInbox))
    /\ pendingRejectRef' = IF listeners = {} THEN pendingRejectRef ELSE NoRequest
    /\ listeners' = {}
    /\ UNCHANGED <<coreVars, settingVars, pixelVars, cliVars, uiVars, workerRef>>

\* The worker throws on the oldest posted request: every attached
\* handleError runs.
WorkerFails ==
    /\ workerRef /\ workerInbox # <<>>
    /\ workerInbox' = Tail(workerInbox)
    /\ requests' = RejectAll(requests, listeners, "error")
    /\ pendingRejectRef' = IF listeners = {} THEN pendingRejectRef ELSE NoRequest
    /\ listeners' = {}
    /\ UNCHANGED <<coreVars, settingVars, pixelVars, cliVars, uiVars, workerRef>>

\* terminate(): a stored reject is called and cleared, the worker is
\* terminated and dropped together with its listeners and its inbox.
Terminate ==
    /\ workerRef
    /\ requests' = RejectAll(requests,
                             IF pendingRejectRef = NoRequest THEN {}
                             ELSE {pendingRejectRef}, "terminated")
    /\ pendingRejectRef' = NoRequest
    /\ workerRef' = FALSE
    /\ listeners' = {} /\ workerInbox' = <<>>
    /\ UNCHANGED <<coreVars, settingVars, pixelVars, cliVars, uiVars>>


\* ================================== the export dialog and the singleton
ExportCalls == 1 .. MaxExports
\* processorInstance = null
NoCall == 0

\* A video is loaded, the dialog is open, nothing was exported yet.
UiIdle ==
    /\ isExporting = FALSE
    /\ exportPc = [j \in ExportCalls |-> "idle"]
    /\ processorInstance = FALSE /\ processorSettings = NoCall

\* The dialog renders its Export button: {!isExporting && ...}
ExportButtonShown(flag, pcs) == ~flag

\* Export clicked: handleExport runs up to its await of the save dialog
\* (dialog.showSaveDialog is opened without a parent window).
ClickExport(j) ==
    /\ exportPc[j] = "idle"
    /\ ExportButtonShown(isExporting, exportPc)
    /\ exportPc' = [exportPc EXCEPT ![j] = "saveDialog"]
    /\ UNCHANGED <<coreVars, settingVars, pixelVars, cliVars, ditherVars, isExporting, processorInstance,
                   processorSettings>>

\* The save dialog returned null: handleExport returns.
SaveDialogCancelled(j) ==
    /\ exportPc[j] = "saveDialog"
    /\ exportPc' = [exportPc EXCEPT ![j] = "cancelled"]
    /\ UNCHANGED <<coreVars, settingVars, pixelVars, cliVars, ditherVars, isExporting, processorInstance,
                   processorSettings>>

\* The save dialog returned a path: setIsExporting(true) and exportVideo up
\* to its first await (getVideoProcessor, processor.setSettings).
SaveDialogChosen(j) ==
    /\ exportPc[j] = "saveDialog"
    /\ isExporting' = TRUE
    /\ processorInstance' = TRUE
    /\ processorSettings' = j
    /\ exportPc' = [exportPc EXCEPT ![j] = "exporting"]
    /\ UNCHANGED <<coreVars, settingVars, pixelVars, cliVars, ditherVars>>

\* exportVideo settled and the file was written, or either failed; the
\* finally block calls setIsExporting(false).
ExportSettled(j) ==
    /\ exportPc[j] = "exporting"
    /\ \E outcome \in {"written", "failed"} :
         exportPc' = [exportPc EXCEPT ![j] = outcome]
    /\ isExporting' = FALSE
    /\ UNCHANGED <<coreVars, settingVars, pixelVars, cliVars, ditherVars, processorInstance,
                   processorSettings>>

\* ======================= VideoProcessor.processFrame and the RenderPipeline
\* One pixel is followed through the passes: the pixel at (0, 0) of a grey
\* frame, with its channels as 8-bit values. The processing dimensions stay
\* the same, so the processing textures are never recreated.

\* Red channel of PALETTES.PocketGrey
PocketGrey == <<0, 85, 170, 255>>

\* A texture created without data
BlankTexture == 0

\* Luminance of the pixel after the contrast pass, per source frame
Frames == {60, 200}

ProcessingSettings ==
    [ditherMode : {"bayer4x4", "floydSteinberg"},
     invertPalette : BOOLEAN,
     lcdEnabled : BOOLEAN]

\* VideoProcessor.currentSettings before the first setSettings
DefaultSettings ==
    [ditherMode |-> "bayer4x4", invertPalette |-> FALSE, lcdEnabled |-> TRUE]

\* An inversion that rotates the entries instead of mirroring them.
getPaletteRotated(palette, invert) ==
    [i \in 1 .. 4 |-> palette[IF invert THEN (i % 4) + 1 ELSE i]]

\* getPaletteAsFloat: entry i reads the palette from the opposite end when
\* inverted.
getPaletteAsFloat(palette, invert) ==
    [i \in 1 .. 4 |-> palette[IF invert THEN 5 - i ELSE i]]

\* bayer4x4 shader, pixel (0, 0): bayerMatrix[0] = 0, so
\* adjusted = luminance - 0.125, clamped; index = int(adjusted * 3.99).
quantizeToPaletteIndex(luminance) ==
    (Max(0, 8 * luminance - 255) * 399) \div 204000

\* The dither pass of runSharedBasePasses: the colour written to
\* ditherPass.texture. floydSteinberg uses the bayer4x4 program as well.
DitherPass(luminance, invert) ==
    getPaletteAsFloat(PocketGrey, invert)[quantizeToPaletteIndex(luminance) + 1]

\* findClosestColorIndex: the first entry at the least squared distance.
findClosestColorIndex(r, palette) ==
    CHOOSE i \in 1 .. 4 :
        \A k \in 1 .. 4 :
            LET di == (r - palette[i]) * (r - palette[i])
                dk == (r - palette[k]) * (r - palette[k])
            IN  di < dk \/ (di = dk /\ i <= k)

\* floydSteinbergDither for the first pixel (no error diffused into it yet);
\* processFrame passes the reversed palette when invertPalette is set.
floydSteinbergDither(r, invert) ==
    LET palette == IF invert THEN [i \in 1 .. 4 |-> PocketGrey[5 - i]]
                   ELSE PocketGrey
    IN  palette[findClosestColorIndex(r, palette)]

\* The export pass (upscale shader with applyLcdUniforms) at scale 1:
\* ghosting mixes in the previous-frame texture, the grid is skipped below a
\* 2x upscale, the shadow samples the clamped neighbour of the current
\* texture, and the baseline lifts blacks. Values in 1/10000 of an 8-bit step.
ExportPass(color, prevColor, effectsEnabled) ==
    LET ghost == IF effectsEnabled THEN ghostingStrength ELSE 0
        shadow == IF effectsEnabled THEN shadowOpacity ELSE 0
        baseline == IF effectsEnabled THEN baselineAlpha ELSE 0
        mixed == color * (100 - ghost) + prevColor * ghost
        shaded == mixed * 100 - color * shadow * 15
        lifted == Max(shaded, 255 * baseline * 100)
    IN  (lifted + 5000) \div 10000

\* processFrame: the pixel read back by getProcessedPixels.
\* floydSteinberg: renderProcessed (which copies its dither output to the
\* previous-frame texture), then renderExportFromPixels of the CPU dither.
ProcessedPixel(luminance, settings, previous) ==
    IF settings.ditherMode = "floydSteinberg"
    THEN ExportPass(floydSteinbergDither(luminance, settings.invertPalette),
                    DitherPass(luminance, settings.invertPalette),
                    settings.lcdEnabled)
    ELSE ExportPass(DitherPass(luminance, settings.invertPalette),
                    previous, settings.lcdEnabled)

\* The previous-frame texture after processFrame: copyTexture of
\* cpuInputTexture (floydSteinberg) or of ditherPass.texture.
PreviousAfter(luminance, settings) ==
    IF settings.ditherMode = "floydSteinberg"
    THEN floydSteinbergDither(luminance, settings.invertPalette)
    ELSE DitherPass(luminance, settings.invertPalette)

\* The texture bound as u_previousFrame by applyLcdUniforms in the export
\* pass whose output processFrame reads back. In floydSteinberg mode
\* renderProcessed has already copied ditherPass.texture of the current
\* frame to the previous-frame texture when renderExportFromPixels runs.
BlendedPrevious(luminance, settings, previous) ==
    IF settings.ditherMode = "floydSteinberg"
    THEN DitherPass(luminance, settings.invertPalette)
    ELSE previous

\* A new processor: default settings, fresh textures, nothing rendered.
RenderIdle ==
    /\ currentSettings = DefaultSettings
    /\ previousFrameTexture = BlankTexture
    /\ runId = 0
    /\ rendered = <<>>

\* exportVideo starts a run: processor.setSettings(settings).
SetSettings(settings) ==
    /\ runId < MaxRuns
    /\ currentSettings' = settings
    /\ runId' = runId + 1
    /\ UNCHANGED <<coreVars, settingVars, cliVars, ditherVars, uiVars, dimVars,
                   previousFrameTexture, rendered>>

\* processFrame(video) on a frame of the source.
VideoProcessFrame(luminance) ==
    /\ Len(rendered) < MaxRenders
    /\ rendered' = Append(rendered,
          [run |-> runId, settings |-> currentSettings, frame |-> luminance,
           pixels |-> ProcessedPixel(luminance, currentSettings,
                                     previousFrameTexture),
           blended |-> BlendedPrevious(luminance, currentSettings,
                                       previousFrameTexture)])
    /\ previousFrameTexture' = PreviousAfter(luminance, currentSettings)
    /\ UNCHANGED <<coreVars, settingVars, cliVars, ditherVars, uiVars, dimVars,
                   currentSettings, runId>>


\* ===================================== the output dimensions of an MP4 export
SourceVideos == [width : 1 .. MaxSourceDim, height : 1 .. MaxSourceDim]
NoDims == [width |-> 0, height |-> 0]

\* Math.round(n / d) for positive n and d, in exact arithmetic
Round(n, d) == (2 * n + d) \div (2 * d)

\* calculateProcessingResolution for the modes other than gameBoyCamera: the
\* shorter side is BASE_PIXEL_DENSITY, the longer follows the aspect ratio.
calculateProcessingResolution(sourceWidth, sourceHeight) ==
    IF sourceWidth >= sourceHeight
    THEN [width |-> Round(BASE_PIXEL_DENSITY * sourceWidth, sourceHeight),
          height |-> BASE_PIXEL_DENSITY]
    ELSE [width |-> BASE_PIXEL_DENSITY,
          height |-> Round(BASE_PIXEL_DENSITY * sourceHeight, sourceWidth)]

\* The width and height of the frames processFrame returns.
FrameDims == calculateProcessingResolution(sourceVideo.width, sourceVideo.height)

\* calculateScaledDimensions without the ensureEven step.
calculateScaledDimensionsAsIs(frameWidth, frameHeight, scale, ensureEven) ==
    [width |-> frameWidth * scale, height |-> frameHeight * scale]

calculateScaledDimensions(frameWidth, frameHeight, scale, ensureEven) ==
    LET width == frameWidth * scale
        height == frameHeight * scale
    IN  [width |-> IF ensureEven /\ width % 2 # 0 THEN width + 1 ELSE width,
         height |-> IF ensureEven /\ height % 2 # 0 THEN height + 1 ELSE height]

\* The size FFmpeg writes: that of the raw input, unless the scale / pad
\* filter is applied, whose pad=W:H sets it.
FfmpegOutputDims(frameWidth, frameHeight, dims) ==
    IF dims.width # frameWidth \/ dims.height # frameHeight
    THEN [width |-> dims.width, height |-> dims.height]
    ELSE [width |-> frameWidth, height |-> frameHeight]

DimIdle ==
    /\ sourceVideo = [width |-> 1, height |-> 1]
    /\ encoderPath = "none"
    /\ outputDims = NoDims

PixelIdle == RenderIdle /\ DimIdle

\* new WebCodecsEncoder({fps, frameWidth, frameHeight}): the muxer and the
\* VideoEncoder are configured with outputWidth x outputHeight.
NewWebCodecsEncoder ==
    /\ encoderPath = "none"
    /\ encoderPath' = "webcodecs"
    /\ outputDims' = calculateScaledDimensions(FrameDims.width, FrameDims.height,
                                               HIGH_QUALITY, TRUE)
    /\ UNCHANGED <<coreVars, settingVars, cliVars, ditherVars, uiVars, renderVars, sourceVideo>>

\* encodeMp4(frames, ...), directly or as the fallback of the streaming path.
EncodeMp4 ==
    /\ encoderPath \in {"none", "webcodecs"}
    /\ encoderPath' = "ffmpeg"
    /\ outputDims' =
         FfmpegOutputDims(FrameDims.width, FrameDims.height,
             calculateScaledDimensions(FrameDims.width, FrameDims.height, 1, TRUE))
    /\ UNCHANGED <<coreVars, settingVars, cliVars, ditherVars, uiVars, renderVars, sourceVideo>>

\* ============================================================ the trim range
clamp(value, lo, hi) == Max(lo, Min(hi, value))

\* asNumber gives null for anything but a finite number
Null == -100
\* settings.trim.startSec / endSec of a job file
RawSecs == (-1 .. MaxTrimDuration + 1) \cup {Null}
NoRange == [start |-> -1, end |-> -1]
Handles == {"start", "end"}
\* Pointer positions of a drag, in hundredths of the track
DragPercents == {0, 1, 2, 50, 98, 99, 100}

TrimIdle ==
    /\ trimPc = "timeline"
    /\ sourceDuration = 1
    /\ jobTrim = [startSec |-> Null, endSec |-> Null]
    /\ trimStart = 0 /\ trimEnd = 100
    /\ trimRange = NoRange

\* parseAndValidateJob, the trim of the job:
\* trimStartSec = max(0, startSec ?? 0); trimEndSec = max(trimStartSec, endSec) or null
ParseTrim ==
    /\ trimPc = "job"
    /\ LET trimStartSec == Max(0, IF jobTrim.startSec = Null THEN 0
                                  ELSE jobTrim.startSec)
           trimEndSec == IF jobTrim.endSec = Null THEN Null
                         ELSE Max(trimStartSec, jobTrim.endSec)
       IN  jobTrim' = [startSec |-> trimStartSec, endSec |-> trimEndSec]
    /\ trimPc' = "parsed"
    /\ UNCHANGED <<coreVars, busVars, exceptTrim, sourceDuration, trimStart,
                   trimEnd, trimRange>>

\* resolveJobForSource, the trim of the job (loadVideo gave a positive duration).
ResolveTrim ==
    /\ trimPc = "parsed"
    /\ LET trimStartSec == clamp(jobTrim.startSec, 0, sourceDuration)
           trimEndSec == IF jobTrim.endSec = Null THEN sourceDuration
                         ELSE clamp(jobTrim.endSec, trimStartSec, sourceDuration)
       IN  jobTrim' = [startSec |-> trimStartSec, endSec |-> trimEndSec]
    /\ trimPc' = "resolved"
    /\ UNCHANGED <<coreVars, busVars, exceptTrim, sourceDuration, trimStart,
                   trimEnd, trimRange>>

\* resolveJobForSource divides the seconds by durationSafe
durationSafe == IF sourceDuration > 0 THEN sourceDuration ELSE 1

\* runAutomationCommand calls exportVideo with startPercent and endPercent
\* (the seconds over durationSafe); exportVideo multiplies by the duration.
\* Exact arithmetic, in 1/100 s.
RunnerExport ==
    /\ trimPc = "resolved"
    /\ trimRange' = [start |-> (100 * jobTrim.startSec * sourceDuration)
                                   \div durationSafe,
                     end |-> (100 * jobTrim.endSec * sourceDuration)
                                   \div durationSafe]
    /\ trimPc' = "extracting"
    /\ UNCHANGED <<coreVars, busVars, exceptTrim, sourceDuration, jobTrim,
                   trimStart, trimEnd>>

\* The store's setTrimStart / setTrimEnd clamp to [0, 1].
setTrim(value) == Max(0, Min(value, 100))

\* TimelineSlider.applyDragAt while a trim handle is dragged to percent.
ApplyDragAt(isDragging, percent) ==
    /\ trimPc = "timeline"
    /\ IF isDragging = "start"
       THEN /\ trimStart' = setTrim(Min(percent, trimEnd - MIN_TRIM_DISTANCE))
            /\ UNCHANGED trimEnd
       ELSE /\ trimEnd' = setTrim(Max(percent, trimStart + MIN_TRIM_DISTANCE))
            /\ UNCHANGED trimStart
    /\ UNCHANGED <<coreVars, busVars, exceptTrim, trimPc, sourceDuration,
                   jobTrim, trimRange>>

\* TimelineSlider.handleKeyDown on a trim handle: an arrow key, with or
\* without shift.
HandleKeyDown(type, left, step) ==
    /\ trimPc = "timeline"
    /\ IF type = "start"
       THEN /\ trimStart' = setTrim(
                  IF left THEN Max(0, trimStart - step)
                  ELSE Min(trimEnd - MIN_TRIM_DISTANCE, trimStart + step))
            /\ UNCHANGED trimEnd
       ELSE /\ trimEnd' = setTrim(
                  IF left THEN Max(trimStart + MIN_TRIM_DISTANCE, trimEnd - step)
                  ELSE Min(100, trimEnd + step))
            /\ UNCHANGED trimStart
    /\ UNCHANGED <<coreVars, busVars, exceptTrim, trimPc, sourceDuration,
                   jobTrim, trimRange>>

\* App.handleExport calls exportVideo with the store's trimStart and trimEnd;
\* exportVideo multiplies by the duration.
TimelineExport ==
    /\ trimPc = "timeline"
    /\ trimRange' = [start |-> trimStart * sourceDuration,
                     end |-> trimEnd * sourceDuration]
    /\ trimPc' = "extracting"
    /\ UNCHANGED <<coreVars, busVars, exceptTrim, sourceDuration, jobTrim,
                   trimStart, trimEnd>>

\* ========================================================== the crop region
\* x, y, width, height of settings.crop in a job file, in tenths
RawTenths == {-5, 0, 3, 10, 15}
NoCrop == [x |-> Null, y |-> Null, width |-> Null, height |-> Null]
CropSources == [width : 1 .. MaxCropSource, height : 1 .. MaxCropSource]

\* A tenth of the source width, and a tenth of the source height times the
\* aspect 8/7, in 1/560 pixel
TenthOfWidth(sourceW) == (PixelUnit \div 10) * sourceW
TenthOfHeightByAspect(sourceH) == ((PixelUnit \div 10) * 8 * sourceH) \div 7

\* RenderPipeline.currentCropRegion starts as the whole frame.
FullFrame(sourceW, sourceH) ==
    [x |-> 0, y |-> 0, width |-> PixelUnit * sourceW, height |-> PixelUnit * sourceH]

\* getDefaultCenteredCrop with the default aspect, in 1/560 pixel
getDefaultCenteredCrop(sourceW, sourceH) ==
    LET wide == 7 * sourceW > 8 * sourceH
        widthPx == IF wide THEN (PixelUnit * 8 * sourceH) \div 7
                   ELSE PixelUnit * sourceW
        heightPx == IF wide THEN PixelUnit * sourceH
                    ELSE (PixelUnit * 7 * sourceW) \div 8
    IN  [x |-> (PixelUnit * sourceW - widthPx) \div 2,
         y |-> (PixelUnit * sourceH - heightPx) \div 2,
         width |-> widthPx, height |-> heightPx]

\* The lower bound of the clamped width with no minimum at all.
CropWidthFloorNone(minWidthPx, maxWidthPx) == 0

\* The lower bound of the clamped width: Math.min(minWidthPx, maxWidthPx)
CropWidthFloor(minWidthPx, maxWidthPx) == Min(minWidthPx, maxWidthPx)

\* clampAndNormalizeCrop with the default minWidthNorm and aspect; region in
\* tenths (every component finite), result in 1/560 pixel.
clampAndNormalizeCrop(region, sourceW, sourceH) ==
    LET minWidthPx == Max(TenthOfWidth(sourceW) * GBCAM_MIN_CROP_WIDTH_NORM,
                          PixelUnit)
        maxWidthPx == Min(PixelUnit * sourceW, (PixelUnit * 8 * sourceH) \div 7)
        widthFromInput == Max(region.width * TenthOfWidth(sourceW),
                              region.height * TenthOfHeightByAspect(sourceH))
        clampedWidthPx == clamp(widthFromInput,
                                CropWidthFloor(minWidthPx, maxWidthPx), maxWidthPx)
        clampedHeightPx == (clampedWidthPx * 7) \div 8
        maxXPx == Max(0, PixelUnit * sourceW - clampedWidthPx)
        maxYPx == Max(0, PixelUnit * sourceH - clampedHeightPx)
    IN  [x |-> clamp(region.x * TenthOfWidth(sourceW), 0, maxXPx),
         y |-> clamp(region.y * (PixelUnit \div 10) * sourceH, 0, maxYPx),
         width |-> clampedWidthPx, height |-> clampedHeightPx]

CropIdle ==
    /\ cropPc = "set"
    /\ cropSource = [width |-> 1, height |-> 1]
    /\ jobCrop = NoCrop
    /\ cropRegion = FullFrame(1, 1)
    /\ currentCropRegion = FullFrame(1, 1)

\* parseAndValidateJob: crop: validateCrop(settingsRecord.crop)
ValidateCrop ==
    /\ cropPc = "job"
    /\ jobCrop' = IF \E f \in DOMAIN jobCrop : jobCrop[f] = Null THEN NoCrop
                  ELSE [f \in DOMAIN jobCrop |-> clamp(jobCrop[f], 0, 10)]
    /\ cropPc' = "validated"
    /\ UNCHANGED <<coreVars, busVars, exceptCrop, cropSource, cropRegion,
                   currentCropRegion>>

\* resolveJobForSource: the crop of the job, or the centred default.
ResolveCrop ==
    /\ cropPc = "validated"
    /\ cropRegion' = IF jobCrop # NoCrop
                     THEN clampAndNormalizeCrop(jobCrop, cropSource.width,
                                                cropSource.height)
                     ELSE getDefaultCenteredCrop(cropSource.width,
                                                 cropSource.height)
    /\ cropPc' = "resolved"
    /\ UNCHANGED <<coreVars, busVars, exceptCrop, cropSource, jobCrop,
                   currentCropRegion>>

\* RenderPipeline.setCropRegion(region): each component is clamped to [0, 1].
SetCropRegion ==
    /\ cropPc = "resolved"
    /\ currentCropRegion' =
         [x |-> clamp(cropRegion.x, 0, PixelUnit * cropSource.width),
          y |-> clamp(cropRegion.y, 0, PixelUnit * cropSource.height),
          width |-> clamp(cropRegion.width, 0, PixelUnit * cropSource.width),
          height |-> clamp(cropRegion.height, 0, PixelUnit * cropSource.height)]
    /\ cropPc' = "set"
    /\ UNCHANGED <<coreVars, busVars, exceptCrop, cropSource, jobCrop, cropRegion>>

\* ================================================ the pipeline's resolutions
\* PROCESSING_DEFAULTS and DEFAULT_DISPLAY
ProcessingDefaults == [width |-> 160, height |-> 144]
DefaultDisplay == [width |-> 640, height |-> 576]
\* GBCAM_SENSOR_WIDTH x GBCAM_SENSOR_HEIGHT
SensorResolution == [width |-> 128, height |-> 112]

\* Container sizes given to setDisplaySize
DisplaySizes == [width : {100, 400, 1280}, height : {100, 300, 720}]
DitherModes == {"bayer4x4", "gameBoyCamera"}

\* calculateProcessingResolution(sourceWidth, sourceHeight, ditherMode)
ProcessingResolutionFor(info, mode) ==
    IF mode = "gameBoyCamera" THEN SensorResolution
    ELSE calculateProcessingResolution(info.width, info.height)

\* calculateLetterboxViewport with snapToIntegerScale and the processing
\* size as the source size.
calculateLetterboxViewport(container, proc) ==
    IF container.width >= proc.width /\ container.height >= proc.height
    THEN LET integerScale == Min(container.width \div proc.width,
                                 container.height \div proc.height)
             width == proc.width * integerScale
             height == proc.height * integerScale
         IN  [x |-> (container.width - width) \div 2,
              y |-> (container.height - height) \div 2,
              width |-> width, height |-> height]
    ELSE IF container.width * proc.height > proc.width * container.height
    THEN LET width == Round(container.height * proc.width, proc.height)
         IN  [x |-> Round(container.width - width, 2), y |-> 0,
              width |-> width, height |-> container.height]
    ELSE LET height == Round(container.width * proc.height, proc.width)
         IN  [x |-> 0, y |-> Round(container.height - height, 2),
              width |-> container.width, height |-> height]

\* The render targets of processing size, each a texture and its
\* framebuffer: the three base passes, the export pass, the previous-frame
\* texture and the CPU input texture.
ProcessingTargets ==
    {"downsample", "contrast", "dither", "export", "previousFrame", "cpuInput"}

Current(gen, names) == {<<n, gen[n]>> : n \in names}

\* deleteTexture / deleteFramebuffer of the current targets of these names,
\* then createTexture / createFramebuffer for each of them.
Recreate(t, names) ==
    [gen |-> [n \in ProcessingTargets |->
                 IF n \in names THEN t.gen[n] + 1 ELSE t.gen[n]],
     live |-> (t.live \ Current(t.gen, names))
                  \cup {<<n, t.gen[n] + 1>> : n \in names}]

\* (variant: the CPU input texture is kept)
recreateAllButCpuInput(t) == Recreate(t, ProcessingTargets \ {"cpuInput"})

\* recreateProcessingTextures()
recreateProcessingTextures(t) == Recreate(t, ProcessingTargets)

\* A new RenderPipeline
ResolutionIdle ==
    /\ sourceVideoInfo = ProcessingDefaults
    /\ currentDitherMode = "bayer4x4"
    /\ processDims = ProcessingDefaults
    /\ displaySize = DefaultDisplay
    /\ viewport = [x |-> 0, y |-> 0, width |-> DefaultDisplay.width,
                   height |-> DefaultDisplay.height]
    /\ targetGen = [n \in ProcessingTargets |-> 1]
    /\ liveTargets = Current(targetGen, ProcessingTargets)
    /\ exportPassDims = ProcessingDefaults
    /\ lastExportFramebuffer = "dither"

\* updateProcessingResolutionForMode() with the resolution it computes:
\* the targets are recreated when the resolution differs, the viewport and
\* the upscale texture are refreshed in any case.
updateProcessingResolutionForMode(dims) ==
    /\ dims # processDims => targetGen["dither"] <= MaxRecreations
    /\ processDims' = dims
    /\ IF dims # processDims
       THEN LET r == recreateProcessingTextures(
                         [gen |-> targetGen, live |-> liveTargets])
            IN  /\ targetGen' = r.gen
                /\ liveTargets' = r.live
                /\ exportPassDims' = dims
                /\ lastExportFramebuffer' = "dither"
       ELSE UNCHANGED <<targetGen, liveTargets, exportPassDims,
                        lastExportFramebuffer>>
    /\ viewport' = calculateLetterboxViewport(displaySize, dims)

\* setSourceVideoInfo(width, height): updateProcessingResolutionForMode
SetSourceVideoInfo(info) ==
    /\ sourceVideoInfo' = info
    /\ updateProcessingResolutionForMode(
           ProcessingResolutionFor(info, currentDitherMode))
    /\ UNCHANGED <<coreVars, busVars, exceptResolution, currentDitherMode,
                   displaySize>>

\* setDitherMode(mode): the resolution is updated when the mode enters or
\* leaves gameBoyCamera.
SetDitherMode(mode) ==
    /\ currentDitherMode' = mode
    /\ IF (currentDitherMode = "gameBoyCamera") # (mode = "gameBoyCamera")
       THEN updateProcessingResolutionForMode(
                ProcessingResolutionFor(sourceVideoInfo, mode))
       ELSE UNCHANGED <<processDims, viewport, targetGen, liveTargets,
                        exportPassDims, lastExportFramebuffer>>
    /\ UNCHANGED <<coreVars, busVars, exceptResolution, sourceVideoInfo,
                   displaySize>>

\* setDisplaySize with the processing size taken from the container.
SetDisplaySizeResizing(size) ==
    /\ displaySize' = size
    /\ processDims' = size
    /\ viewport' = calculateLetterboxViewport(size, processDims')
    /\ UNCHANGED <<coreVars, busVars, exceptResolution, sourceVideoInfo,
                   currentDitherMode, targetGen, liveTargets, exportPassDims,
                   lastExportFramebuffer>>

\* setDisplaySize(width, height): refreshViewportAndUpscaleTexture
SetDisplaySize(size) ==
    /\ displaySize' = size
    /\ viewport' = calculateLetterboxViewport(size, processDims)
    /\ UNCHANGED <<coreVars, busVars, exceptResolution, sourceVideoInfo,
                   currentDitherMode, processDims, targetGen, liveTargets,
                   exportPassDims, lastExportFramebuffer>>

\* renderProcessed(video) and renderExportFromPixels(pixels), both with
\* exportScale 1: ensureExportPassSize recreates the export target alone
\* when its size differs from the target size; the export pass is rendered.
RenderExport ==
    /\ IF exportPassDims = processDims
       THEN UNCHANGED <<targetGen, liveTargets, exportPassDims>>
       ELSE LET r == Recreate([gen |-> targetGen, live |-> liveTargets],
                              {"export"})
            IN  /\ targetGen' = r.gen
                /\ liveTargets' = r.live
                /\ exportPassDims' = processDims
    /\ lastExportFramebuffer' = "export"
    /\ UNCHANGED <<coreVars, busVars, exceptResolution, sourceVideoInfo,
                   currentDitherMode, processDims, displaySize, viewport>>

\* ------------------------------------------------- the audio chains
\* Samples are integers in 1/4096 of full scale, the spacing of the wave
\* shaper's curve points; outputs are integers in 2^-20 of full scale.
HalfCurve == CurveSamples \div 2
FineUnit == 256
AudioSamples == {-HalfCurve, 0, 1000}
AudioSettings == [bitDepth : {2, 6}, distortion : {0, 30}]
NoOutput == <<>>

\* floor(n * 16^digits / d) and the remainder, by long division.
RECURSIVE HexRemainder(_, _, _)
HexRemainder(n, d, digits) ==
    IF digits = 0 THEN n % d ELSE (HexRemainder(n, d, digits - 1) * 16) % d

RECURSIVE HexQuotient(_, _, _)
HexQuotient(n, d, digits) ==
    IF digits = 0 THEN n \div d
    ELSE 16 * HexQuotient(n, d, digits - 1)
           + (HexRemainder(n, d, digits - 1) * 16) \div d

Abs(x) == IF x < 0 THEN -x ELSE x

\* clampAudioSample, on a value whose full scale is `one`.
clampAudioSample(sample, one) == Max(-one, Min(one, sample))

\* applySoftClip(sample, distortionPercent), and the expression of
\* updateDistortionCurve: with k = distortion / 2 and x = sample / 4096,
\* (3 + k) * x * 20 * (pi / 180) / (pi + k * |x|)
\*   = (6 + distortion) * sample * pi / (9 * (8192 * pi + distortion * |sample|)).
SoftClipCurve(sample, distortion) ==
    LET n == (6 + distortion) * Abs(sample) * PiNumerator
        d == 2 * HalfCurve * PiNumerator + PiDenominator * distortion * Abs(sample)
        magnitude == Round(HexQuotient(n, d, 5), 9)
    IN  IF sample < 0 THEN -magnitude ELSE magnitude

applySoftClip(sample, distortionPercent) ==
    IF distortionPercent <= 0 THEN sample * FineUnit
    ELSE SoftClipCurve(sample, distortionPercent)

\* Math.round(sample / step) * step, clamped: step = 2 / 2^bitDepth.
QuantStep(bitDepth) == (2 * HalfCurve) \div (2 ^ bitDepth)
Quantize(sample, bitDepth) ==
    clampAudioSample(Round(sample, QuantStep(bitDepth)) * QuantStep(bitDepth),
                     HalfCurve)

\* applyPreviewBitcrushAndDistortion on one channel: the held sample is
\* taken anew at every index that is a multiple of the reduction.
applyPreviewBitcrushAndDistortion(data, settings) ==
    LET bitDepth == Max(2, Min(16, settings.bitDepth))
        distortion == Max(0, Min(100, settings.distortion))
        heldSample(i) ==
            Quantize(data[i - ((i - 1) % BITCRUSH_SAMPLE_RATE_REDUCTION)], bitDepth)
    IN  [i \in 1 .. Len(data) |->
            clampAudioSample(applySoftClip(heldSample(i), distortion),
                             HalfCurve * FineUnit)]

\* BitcrusherProcessor.process on one channel of one block: the state after
\* the block and the block's output.
RECURSIVE BitcrusherProcess(_, _, _, _)
BitcrusherProcess(block, counter, held, bitDepth) ==
    IF block = <<>> THEN [out |-> <<>>, counter |-> counter, held |-> held]
    ELSE LET shouldUpdate == counter % BITCRUSH_SAMPLE_RATE_REDUCTION = 0
             sample == IF shouldUpdate THEN Quantize(Head(block), bitDepth)
                       ELSE held
             rest == BitcrusherProcess(Tail(block), counter + 1, sample, bitDepth)
         IN  [rest EXCEPT !.out = <<sample>> \o @]

\* updateDistortionCurve: curve[i] is the expression at x = 2 * i / samples - 1.
DistortionCurve(i, distortion) == SoftClipCurve(i - HalfCurve, distortion)

\* The WaveShaperNode: no curve passes the input through; a curve of N
\* points is read at v = (N - 1) / 2 * (x + 1), interpolating linearly
\* between the two points around v.
WaveShaper(sample, distortion) ==
    IF distortion = 0 THEN sample * FineUnit
    ELSE LET v == (CurveSamples - 1) * (sample + HalfCurve)
             k == v \div CurveSamples
             f == v % CurveSamples
         IN  IF sample <= -HalfCurve THEN DistortionCurve(0, distortion)
             ELSE IF sample >= HalfCurve
                  THEN DistortionCurve(CurveSamples - 1, distortion)
             ELSE DistortionCurve(k, distortion)
                    + Round(f * (DistortionCurve(k + 1, distortion)
                                   - DistortionCurve(k, distortion)),
                            CurveSamples)

AudioIdle ==
    /\ audioSettings = [bitDepth |-> 6, distortion |-> 30]
    /\ audioInput = <<>> /\ sampleCounter = 0 /\ lastSample = 0
    /\ liveOutput = <<>> /\ offlineOutput = NoOutput

\* One render quantum of the preview graph: the bitcrusher worklet, then
\* the wave shaper.
Process(block) ==
    /\ offlineOutput = NoOutput
    /\ Len(audioInput) + Len(block) <= MaxSamples
    /\ LET after == BitcrusherProcess(block, sampleCounter, lastSample,
                                      audioSettings.bitDepth)
       IN  /\ sampleCounter' =
                 IF after.counter > CounterLimit
                 THEN after.counter % BITCRUSH_SAMPLE_RATE_REDUCTION
                 ELSE after.counter
           /\ lastSample' = after.held
           /\ liveOutput' = liveOutput \o
                 [i \in 1 .. Len(block) |->
                     WaveShaper(after.out[i], audioSettings.distortion)]
    /\ audioInput' = audioInput \o block
    /\ UNCHANGED <<coreVars, busVars, jobSettingVars, exceptAudio, audioSettings, offlineOutput>>

\* applyAudioBitcrush on the samples the preview has played.
ApplyAudioBitcrush ==
    /\ offlineOutput = NoOutput
    /\ audioInput # <<>>
    /\ offlineOutput' = applyPreviewBitcrushAndDistortion(audioInput, audioSettings)
    /\ UNCHANGED <<coreVars, busVars, jobSettingVars, exceptAudio, audioSettings, audioInput,
                   sampleCounter, lastSample, liveOutput>>

\* ------------------------------------- Floyd-Steinberg on a whole image
\* The working buffer is kept in 2^-16 of an 8-bit step, the spacing of a
\* Float32 between 128 and 256; the products error * factor in 2^-20.
FsUnit == 65536
FsPixels == {0, 60, 200}
NoImage == <<>>
\* The input images: black but for a few pixels.
FsImages ==
    {image \in [1 .. FsWidth * FsHeight -> FsPixels] :
        Cardinality({i \in DOMAIN image : image[i] # 0}) <= MaxLitPixels}

clampChannel(value) == Max(0, Min(255 * FsUnit, value))

\* findClosestColorIndex on a grey value of the working buffer: with
\* r = g = b the least squared distance is the least |r - color|.
ClosestGreyIndex(value, palette) ==
    CHOOSE i \in 1 .. 4 :
        \A k \in 1 .. 4 :
            LET di == Abs(value - palette[i] * FsUnit)
                dk == Abs(value - palette[k] * FsUnit)
            IN  di < dk \/ (di = dk /\ i <= k)

\* The four addError calls of a pixel: offset and factor, in sixteenths.
Neighbours == << [dx |-> 1, dy |-> 0], [dx |-> -1, dy |-> 1],
                 [dx |-> 0, dy |-> 1], [dx |-> 1, dy |-> 1] >>

DiffusionFactorLight(dx, dy) == 3

DiffusionFactor(dx, dy) ==
    IF dy = 0 THEN 7
    ELSE IF dx = -1 THEN 3
    ELSE IF dx = 0 THEN 5
    ELSE 1

\* addError's early return: the neighbour is outside the image.
InImage(width, height, x, y) == ~(x < 0 \/ y < 0 \/ x >= width \/ y >= height)

\* addError: buffer[index] += error * factor, rounded to the buffer's spacing.
addError(buffer, width, height, x, y, err, factor) ==
    IF ~InImage(width, height, x, y) THEN buffer
    ELSE [buffer EXCEPT ![y * width + x] = Round(@ * 16 + err * factor, 16)]

\* The amount addError adds, in 2^-20.
AddedAmount(width, height, x, y, err, factor) ==
    IF InImage(width, height, x, y) THEN err * factor ELSE 0

\* The loop body of floydSteinbergDither at pixel i, and the rest of the loop.
RECURSIVE DitherFrom(_, _, _, _, _)
DitherFrom(i, working, width, height, palette) ==
    IF i >= width * height THEN [output |-> <<>>, diffusion |-> <<>>]
    ELSE LET x == i % width
             y == i \div width
             old == clampChannel(working[i])
             color == palette[ClosestGreyIndex(old, palette)]
             err == old - color * FsUnit
             n(k) == Neighbours[k]
             f(k) == DiffusionFactor(n(k).dx, n(k).dy)
             w1 == addError(working, width, height, x + n(1).dx, y + n(1).dy, err, f(1))
             w2 == addError(w1, width, height, x + n(2).dx, y + n(2).dy, err, f(2))
             w3 == addError(w2, width, height, x + n(3).dx, y + n(3).dy, err, f(3))
             w4 == addError(w3, width, height, x + n(4).dx, y + n(4).dy, err, f(4))
             added == [k \in 1 .. 4 |->
                          AddedAmount(width, height, x + n(k).dx, y + n(k).dy,
                                      err, f(k))]
             rest == DitherFrom(i + 1, w4, width, height, palette)
         IN  [output |-> <<color>> \o rest.output,
              diffusion |-> << [x |-> x, y |-> y, error |-> err * 16,
                                added |-> added] >> \o rest.diffusion]

\* bayerMatrix, in sixteenths, and getBayerValue.
bayerMatrix == << 0, 8, 2, 10, 12, 4, 14, 6, 3, 11, 1, 9, 15, 7, 13, 5 >>
getBayerValue(x, y) == bayerMatrix[(x % 4) + (y % 4) * 4 + 1]

\* The bayer4x4 shader's quantizeToPaletteIndex: with the 8-bit luminance L
\* and the matrix entry d, adjusted = L / 255 + (d / 16 - 0.5) * 0.25
\* = (64 * L + 255 * (d - 8)) / 16320, clamped, and int(adjusted * 3.99).
bayerPaletteIndex(luminance, dither) ==
    LET adjusted == Max(0, Min(16320, 64 * luminance + 255 * (dither - 8)))
    IN  (adjusted * 399) \div 1632000

\* The bayer4x4 program on a whole image, its export pass without LCD effects.
\* pixels are the rows of getContrastPixels, which reads the contrast
\* framebuffer bottom row last: row r of pixels is texture row height - 1 - r,
\* and the shader takes its matrix entry at the texture coordinate.
bayer4x4Image(pixels, width, height, palette) ==
    [i \in 1 .. width * height |->
        ExportPass(palette[bayerPaletteIndex(
                       pixels[i],
                       getBayerValue((i - 1) % width,
                                     height - 1 - ((i - 1) \div width))) + 1],
                   BlankTexture, FALSE)]

\* A Floyd-Steinberg mode that puts out what the bayer4x4 program does.
floydSteinbergAsBayer(pixels, width, height, palette) ==
    [output |-> bayer4x4Image(pixels, width, height, palette), diffusion |-> <<>>]


\* floydSteinbergDither(pixels, width, height, palette) on grey pixels.
floydSteinbergDitherImage(pixels, width, height, palette) ==
    DitherFrom(0, [i \in 0 .. width * height - 1 |-> pixels[i + 1] * FsUnit],
               width, height, palette)

FsIdle ==
    /\ fsImage = [i \in 1 .. FsWidth * FsHeight |-> 0]
    /\ fsOutput = NoImage /\ fsDiffusion = <<>> /\ bayerOutput = NoImage

\* processFrame's call of floydSteinbergDither.
FloydSteinbergDither ==
    /\ fsOutput = NoImage
    /\ LET result == floydSteinbergDitherImage(fsImage, FsWidth, FsHeight, PocketGrey)
       IN  /\ fsOutput' = result.output
           /\ fsDiffusion' = result.diffusion
    /\ UNCHANGED <<coreVars, busVars, jobSettingVars, exceptFs, fsImage, bayerOutput>>

\* processFrame in bayer4x4 mode, LCD effects off: renderProcessed and
\* getProcessedPixels.
BayerDither ==
    /\ bayerOutput = NoImage
    /\ bayerOutput' = bayer4x4Image(fsImage, FsWidth, FsHeight, PocketGrey)
    /\ UNCHANGED <<coreVars, busVars, jobSettingVars, exceptFs, fsImage, fsOutput,
                   fsDiffusion>>

\* ------------------------------------------------------- the palettes
PALETTES ==
    [name \in {"1989Green", "PocketGrey", "MidnightBlue", "HighContrastBW", "RedBlack"} |->
        CASE name = "1989Green" ->
               << <<15, 56, 15>>, <<48, 98, 48>>, <<139, 172, 15>>, <<155, 188, 15>> >>
          [] name = "PocketGrey" ->
               << <<0, 0, 0>>, <<85, 85, 85>>, <<170, 170, 170>>, <<255, 255, 255>> >>
          [] name = "MidnightBlue" ->
               << <<13, 17, 43>>, <<48, 58, 105>>, <<107, 130, 165>>, <<192, 203, 220>> >>
          [] name = "HighContrastBW" ->
               << <<0, 0, 0>>, <<64, 64, 64>>, <<192, 192, 192>>, <<255, 255, 255>> >>
          [] name = "RedBlack" ->
               << <<0, 0, 0>>, <<85, 0, 0>>, <<170, 0, 0>>, <<255, 0, 0>> >>]

PALETTE_NAMES == DOMAIN PALETTES

\* The colours handed to findClosestColorIndex: every entry of every palette
\* and some colours between entries.
QuantizedColors ==
    {PALETTES[name][i] : name \in PALETTE_NAMES, i \in 1 .. 4}
        \cup {<<42, 42, 42>>, <<43, 43, 43>>, <<128, 0, 0>>, <<100, 140, 30>>}

NoQuantization == [color |-> <<>>, palette |-> <<>>, closestIdx |-> 0]

\* [...basePalette].reverse()
reverse(palette) == [i \in 1 .. Len(palette) |-> palette[Len(palette) + 1 - i]]

\* The palette processFrame hands to floydSteinbergDither.
FloydPalette(name, invert) ==
    IF invert THEN reverse(PALETTES[name]) ELSE PALETTES[name]

findClosestFirst(r, g, b, palette) == 1

\* findClosestColorIndex(r, g, b, palette): the first entry at the least
\* squared distance (an entry replaces the best only when strictly nearer).
findClosestColorIndexRgb(r, g, b, palette) ==
    LET distance(i) ==
            (r - palette[i][1]) * (r - palette[i][1])
              + (g - palette[i][2]) * (g - palette[i][2])
              + (b - palette[i][3]) * (b - palette[i][3])
    IN  CHOOSE i \in 1 .. Len(palette) :
            \A k \in 1 .. Len(palette) :
                distance(i) < distance(k) \/ (distance(i) = distance(k) /\ i <= k)

PaletteIdle ==
    /\ currentPalette = "1989Green" /\ currentInvertPalette = FALSE
    /\ paletteData = getPaletteAsFloat(PALETTES["1989Green"], FALSE)
    /\ fsPalette = PALETTES["1989Green"]
    /\ inversions = 0
    /\ firstPalettes = [gpu |-> paletteData, cpu |-> fsPalette]
    /\ quantized = NoQuantization

\* setSettings with another palette, then processFrame: the dither pass
\* uploads getPaletteAsFloat, the CPU dither gets the palette or its reverse.
SetPalette(name, invert) ==
    /\ currentPalette' = name
    /\ currentInvertPalette' = invert
    /\ paletteData' = getPaletteAsFloat(PALETTES[name], invert)
    /\ fsPalette' = FloydPalette(name, invert)
    /\ inversions' = 0
    /\ firstPalettes' = [gpu |-> paletteData', cpu |-> fsPalette']
    /\ quantized' = NoQuantization
    /\ UNCHANGED <<coreVars, busVars, jobSettingVars, exceptPalette>>

\* setSettings with invertPalette flipped, then processFrame.
SetInvertPalette ==
    /\ inversions < MaxInversions
    /\ currentInvertPalette' = ~currentInvertPalette
    /\ paletteData' = getPaletteAsFloat(PALETTES[currentPalette], ~currentInvertPalette)
    /\ fsPalette' = FloydPalette(currentPalette, ~currentInvertPalette)
    /\ inversions' = inversions + 1
    /\ quantized' = NoQuantization
    /\ UNCHANGED <<coreVars, busVars, jobSettingVars, exceptPalette, currentPalette,
                   firstPalettes>>

\* One findClosestColorIndex call of floydSteinbergDither.
FindClosestColor(color) ==
    /\ quantized' = [color |-> color, palette |-> fsPalette,
                     closestIdx |-> findClosestColorIndexRgb(
                                        color[1], color[2], color[3], fsPalette)]
    /\ UNCHANGED <<coreVars, busVars, jobSettingVars, exceptPalette, currentPalette,
                   currentInvertPalette, paletteData, fsPalette, inversions,
                   firstPalettes>>

\* ================================================== WebCodecsEncoder
\* Frame rates given to the encoder (the frame rate slider allows 10 to 60).
CodecFps == {10, 15}

\* constructor: this.frameDurationUs = Math.round(1_000_000 / fps)
frameDurationUs(fps) == Round(1000000, fps)

\* (variant: a keyframe every second)
keyframeIntervalOneSecond(fps) == Max(1, fps)

\* constructor: this.keyframeInterval = Math.max(1, Math.round(fps * 2))
keyframeInterval(fps) == Max(1, Round(fps * 2, 1))

\* (variant: every call goes through to VideoEncoder.encode, which accepts)
EncodeFrameSubmitsAlways(err, isClosed, state) == TRUE

\* encodeFrame reaches VideoEncoder.encode, and encode accepts the frame:
\* throwIfEncoderErrored and the closed check pass, and the VideoEncoder is
\* configured (encode throws InvalidStateError on a closed encoder).
EncodeFrameSubmits(err, isClosed, state) ==
    ~err /\ ~isClosed /\ state = "configured"

\* (variant: frameIndex advances only when encodeFrame does not suspend)
NextFrameIndexUnlessFlushing(index, suspends) ==
    IF suspends THEN index ELSE index + 1

\* this.frameIndex += 1, before the await on encoder.flush()
NextFrameIndex(index, suspends) == index + 1

Call(op, dead, outcome) == [op |-> op, dead |-> dead, outcome |-> outcome]

\* The encoder is finalized, closed or errored.
EncoderDead == wcClosed \/ wcEncoderError

\* No encoder exists.
CodecIdle ==
    /\ codecFps = 0 /\ captured = 0 /\ wcFrameIndex = 0
    /\ wcClosed = FALSE /\ wcEncoderError = FALSE /\ wcAudioBlob = FALSE
    /\ codecState = "closed" /\ encodeQueueSize = 0 /\ submitted = <<>>
    /\ awaitingFlush = 0 /\ finalizePc = "idle" /\ blobsReturned = 0
    /\ lastCall = Call("none", FALSE, "returned")

\* captureFrame hands the next frame to the consumer, which calls
\* encoder.encodeFrame(frame); the call runs up to its first await.
EncodeFrame ==
    /\ captured < MaxCodecFrames
    /\ captured' = captured + 1
    /\ IF EncodeFrameSubmits(wcEncoderError, wcClosed, codecState)
       THEN LET suspends == AwaitsFlush(encodeQueueSize + 1)
            IN  /\ submitted' = Append(submitted,
                      [frame |-> captured,
                       timestamp |-> wcFrameIndex * frameDurationUs(codecFps),
                       keyFrame |-> wcFrameIndex % keyframeInterval(codecFps) = 0])
                /\ wcFrameIndex' = NextFrameIndex(wcFrameIndex, suspends)
                /\ encodeQueueSize' = encodeQueueSize + 1
                /\ awaitingFlush' = awaitingFlush + (IF suspends THEN 1 ELSE 0)
                /\ lastCall' = Call("encodeFrame", EncoderDead, "submitted")
       ELSE /\ lastCall' = Call("encodeFrame", EncoderDead, "threw")
            /\ UNCHANGED <<submitted, wcFrameIndex, encodeQueueSize, awaitingFlush>>
    /\ UNCHANGED <<coreVars, busVars, jobSettingVars, numericVars, exceptCodec, codecFps,
                   wcClosed, wcEncoderError, wcAudioBlob, codecState, finalizePc,
                   blobsReturned>>

\* The VideoEncoder has encoded a frame: its output callback runs.
CodecOutput ==
    /\ codecState = "configured" /\ encodeQueueSize > 0
    /\ encodeQueueSize' = encodeQueueSize - 1
    /\ UNCHANGED <<coreVars, busVars, jobSettingVars, numericVars, exceptCodec, codecFps,
                   captured, wcFrameIndex, wcClosed, wcEncoderError, wcAudioBlob,
                   codecState, submitted, awaitingFlush, finalizePc,
                   blobsReturned, lastCall>>

\* The VideoEncoder closes itself with an error: its error callback stores
\* the error.
CodecError ==
    /\ codecState = "configured"
    /\ codecState' = "closed"
    /\ encodeQueueSize' = 0
    /\ wcEncoderError' = TRUE
    /\ UNCHANGED <<coreVars, busVars, jobSettingVars, numericVars, exceptCodec, codecFps,
                   captured, wcFrameIndex, wcClosed, wcAudioBlob, submitted,
                   awaitingFlush, finalizePc, blobsReturned, lastCall>>

\* The flush awaited by suspended encodeFrame calls settles: resolved when
\* the queue has drained, rejected when the encoder was closed. The calls
\* return or throw; nothing else is done after the await.
EncodeFlushSettled ==
    /\ awaitingFlush > 0
    /\ encodeQueueSize = 0 \/ codecState = "closed"
    /\ awaitingFlush' = 0
    /\ UNCHANGED <<coreVars, busVars, jobSettingVars, numericVars, exceptCodec, codecFps,
                   captured, wcFrameIndex, wcClosed, wcEncoderError, wcAudioBlob,
                   codecState, encodeQueueSize, submitted, finalizePc,
                   blobsReturned, lastCall>>

\* muxer.finalize(); encoder.close(); closed = true; return the blob.
\* VideoEncoder.close throws on an encoder that is closed already.
FinalizeCompletes ==
    IF codecState = "closed"
    THEN UNCHANGED <<codecState, encodeQueueSize, wcClosed, blobsReturned>>
    ELSE /\ codecState' = "closed"
         /\ encodeQueueSize' = 0
         /\ wcClosed' = TRUE
         /\ blobsReturned' = blobsReturned + 1

\* finalize() up to its await on encoder.flush()
Finalize ==
    /\ finalizePc = "idle"
    /\ IF EncoderDead
       THEN /\ lastCall' = Call("finalize", TRUE, "threw")
            /\ UNCHANGED finalizePc
       ELSE /\ lastCall' = Call("finalize", FALSE, "pending")
            /\ finalizePc' = "flush"
    /\ UNCHANGED <<coreVars, busVars, jobSettingVars, numericVars, exceptCodec, codecFps,
                   captured, wcFrameIndex, wcClosed, wcEncoderError, wcAudioBlob,
                   codecState, encodeQueueSize, submitted, awaitingFlush,
                   blobsReturned>>

\* finalize() after encoder.flush() has settled: it throws when the flush
\* was rejected, else goes on to encodeAudio or to the end.
FinalizeFlushed ==
    /\ finalizePc = "flush"
    /\ encodeQueueSize = 0 \/ codecState = "closed"
    /\ IF codecState = "closed"
       THEN /\ finalizePc' = "idle"
            /\ UNCHANGED <<codecState, encodeQueueSize, wcClosed, blobsReturned>>
       ELSE IF wcAudioBlob
       THEN /\ finalizePc' = "audio"
            /\ UNCHANGED <<codecState, encodeQueueSize, wcClosed, blobsReturned>>
       ELSE /\ finalizePc' = "idle"
            /\ FinalizeCompletes
    /\ UNCHANGED <<coreVars, busVars, jobSettingVars, numericVars, exceptCodec, codecFps,
                   captured, wcFrameIndex, wcEncoderError, wcAudioBlob, submitted,
                   awaitingFlush, lastCall>>

\* finalize() after encodeAudio: throwIfEncoderErrored, then the end.
FinalizeAudioEncoded ==
    /\ finalizePc = "audio"
    /\ finalizePc' = "idle"
    /\ IF wcEncoderError
       THEN UNCHANGED <<codecState, encodeQueueSize, wcClosed, blobsReturned>>
       ELSE FinalizeCompletes
    /\ UNCHANGED <<coreVars, busVars, jobSettingVars, numericVars, exceptCodec, codecFps,
                   captured, wcFrameIndex, wcEncoderError, wcAudioBlob, submitted,
                   awaitingFlush, lastCall>>

\* close()
Close ==
    /\ codecFps # 0
    /\ lastCall' = Call("close", EncoderDead, "returned")
    /\ IF wcClosed
       THEN UNCHANGED <<codecState, encodeQueueSize, wcClosed>>
       ELSE /\ codecState' = "closed"
            /\ encodeQueueSize' = 0
            /\ wcClosed' = TRUE
    /\ UNCHANGED <<coreVars, busVars, jobSettingVars, numericVars, exceptCodec, codecFps,
                   captured, wcFrameIndex, wcEncoderError, wcAudioBlob, submitted,
                   awaitingFlush, finalizePc, blobsReturned>>

\* ================================================ seekTo / attemptSeek
\* attemptSeek: the promise is pending, both listeners are added and the
\* timer is armed. settles counts the calls of resolve and reject, by is the
\* attempt whose seek (or 0) caused the event that settled this one, late
\* tells that a handler of this attempt ran after it had settled.
NewAttempt ==
    [state |-> "pending", settles |-> 0, by |-> 0, late |-> FALSE,
     seekedListener |-> TRUE, errorListener |-> TRUE, timer |-> TRUE]

\* (variant: cleanup clears the timer and leaves the listeners)
cleanupTimerOnly(a) == [a EXCEPT !.timer = FALSE]

\* cleanup(): clearTimeout, removeEventListener of seeked and of error
cleanup(a) ==
    [a EXCEPT !.timer = FALSE, !.seekedListener = FALSE,
              !.errorListener = FALSE]

\* onSeeked / onError / the timeout callback of one attempt: return when
\* resolved, else resolved = true, cleanup(), resolve or reject.
Settle(a, outcome, by) ==
    IF a.state # "pending"
    THEN [a EXCEPT !.late = TRUE]
    ELSE [cleanup(a) EXCEPT !.state = outcome, !.settles = a.settles + 1,
                            !.by = by]

\* seekTo after the await of its last attempt: return on success, the
\* backoff or the final throw on failure.
SeekToAfter(attempts) ==
    LET last == attempts[Len(attempts)]
    IN  IF last.state = "pending" THEN "attempting"
        ELSE IF last.state = "seeked" THEN "done"
        ELSE IF Len(attempts) < maxRetries THEN "backoff"
        ELSE "failed"

\* No seek has been asked for.
SeekIdle ==
    /\ seekPc = "idle" /\ seekAttempts = <<>> /\ seekInProgress = 0
    /\ mediaErrored = FALSE /\ mediaQueue = <<>>

\* seekTo calls attemptSeek (first, or after the backoff): listeners, timer,
\* video.currentTime = targetTime. A seek still running is aborted by the
\* new one; on an element in error no seek runs.
AttemptSeek ==
    /\ seekPc \in {"start", "backoff"}
    /\ seekAttempts' = Append(seekAttempts, NewAttempt)
    /\ seekInProgress' = IF mediaErrored THEN 0 ELSE Len(seekAttempts) + 1
    /\ seekPc' = "attempting"
    /\ UNCHANGED <<coreVars, busVars, jobSettingVars, numericVars, exceptSeek,
                   mediaErrored, mediaQueue>>

\* The element finishes the seek it is running and queues 'seeked'.
SeekCompletes ==
    /\ seekInProgress # 0
    /\ mediaQueue' = Append(mediaQueue, [type |-> "seeked", seek |-> seekInProgress])
    /\ seekInProgress' = 0
    /\ UNCHANGED <<coreVars, busVars, jobSettingVars, numericVars, exceptSeek,
                   seekPc, seekAttempts, mediaErrored>>

\* The element fails on its media and queues 'error'.
MediaError ==
    /\ seekPc # "start" /\ ~mediaErrored
    /\ mediaErrored' = TRUE
    /\ mediaQueue' = Append(mediaQueue, [type |-> "error", seek |-> seekInProgress])
    /\ seekInProgress' = 0
    /\ UNCHANGED <<coreVars, busVars, jobSettingVars, numericVars, exceptSeek,
                   seekPc, seekAttempts>>

\* The oldest queued event is dispatched to the listeners registered for it.
DispatchMediaEvent ==
    /\ mediaQueue # <<>>
    /\ mediaQueue' = Tail(mediaQueue)
    /\ LET e == Head(mediaQueue)
           listens(a) == IF e.type = "seeked" THEN a.seekedListener
                         ELSE a.errorListener
       IN  seekAttempts' =
               [i \in DOMAIN seekAttempts |->
                   IF listens(seekAttempts[i])
                   THEN Settle(seekAttempts[i], e.type, e.seek)
                   ELSE seekAttempts[i]]
    /\ seekPc' = IF seekPc = "attempting" THEN SeekToAfter(seekAttempts')
                 ELSE seekPc
    /\ UNCHANGED <<coreVars, busVars, jobSettingVars, numericVars, exceptSeek,
                   seekInProgress, mediaErrored>>

\* The timer of an attempt fires.
SeekTimeout(i) ==
    /\ seekAttempts[i].timer
    /\ seekAttempts' = [seekAttempts EXCEPT ![i] = Settle(@, "timeout", 0)]
    /\ seekPc' = IF seekPc = "attempting" THEN SeekToAfter(seekAttempts')
                 ELSE seekPc
    /\ UNCHANGED <<coreVars, busVars, jobSettingVars, numericVars, exceptSeek,
                   seekInProgress, mediaErrored, mediaQueue>>

\* ------------------------------------------- the AudioSettings in use
\* Settings are integers in 1/10 of their unit (Hz, bits, percent).
AudioUnit == 10

\* SLIDERS.AUDIO_*
SLIDERS ==
    [highpass |-> [MIN |-> 100, MAX |-> 1000],
     lowpass |-> [MIN |-> 2000, MAX |-> 6000],
     bitDepth |-> [MIN |-> 4, MAX |-> 8],
     distortion |-> [MIN |-> 0, MAX |-> 100]]

\* DEFAULTS.audio*, the defaults of applyAudioBitcrush and the initial
\* settings of GameBoyAudioProcessor
AudioDefaults == [highpass |-> 500, lowpass |-> 3500, bitDepth |-> 6, distortion |-> 30]

AudioFields == {"highpass", "lowpass", "bitDepth", "distortion"}

\* The settings given: a field is missing (Null) or a number, within the
\* slider's range or outside it, whole or fractional.
AudioGiven ==
    [highpass : {Null, 50, 5004, 20000},
     lowpass : {Null, 10000, 35000, 300000},
     bitDepth : {Null, 10, 65, 200},
     distortion : {Null, -50, 300, 1500}]

\* The sample rate of the extracted audio / of the AudioContext
SampleRates == {8000, 48000}

\* Math.round of a value in 1/10, in 1/10
MathRound(value) == Round(value, AudioUnit) * AudioUnit

\* value ?? fallback
OrDefault(value, field) ==
    IF value = Null THEN AudioDefaults[field] * AudioUnit ELSE value

\* (variant: the job's audio settings rounded but not clamped)
JobAudioFieldUnclamped(given, field) == MathRound(OrDefault(given[field], field))

\* Math.round(clamp(asNumber(audioRecord.x) ?? DEFAULTS.x, SLIDERS.X.MIN, SLIDERS.X.MAX))
JobAudioField(given, field) ==
    MathRound(clamp(OrDefault(given[field], field),
                    SLIDERS[field].MIN * AudioUnit, SLIDERS[field].MAX * AudioUnit))

\* createBiquadCoefficients: Math.max(10, Math.min(frequency, nyquist - 10))
safeFrequency(frequency, sampleRate) ==
    Max(10 * AudioUnit, Min(frequency, (sampleRate \div 2 - 10) * AudioUnit))

\* applyAudioBitcrush(audioBlob, audioSettings): the defaults for missing
\* fields, the filter frequencies of applyPreviewEqFilters, and the bit depth
\* and distortion of applyPreviewBitcrushAndDistortion.
OfflineValues(settings, sampleRate) ==
    [highpass |-> safeFrequency(OrDefault(settings.highpass, "highpass"), sampleRate),
     lowpass |-> safeFrequency(OrDefault(settings.lowpass, "lowpass"), sampleRate),
     bitDepth |-> Max(2 * AudioUnit,
                      Min(16 * AudioUnit, MathRound(OrDefault(settings.bitDepth, "bitDepth")))),
     distortion |-> Max(0, Min(100 * AudioUnit, OrDefault(settings.distortion, "distortion"))),
     sampleRate |-> sampleRate]

\* An AudioParam computes with its value clamped to its nominal range.
AudioParam(value, minValue, maxValue) == clamp(value, minValue, maxValue)

\* GameBoyAudioProcessor.setSettings(settings) on the connected graph with
\* its initial settings: a field that is given is assigned to the filter's
\* frequency (nominal range 0 .. nyquist), to the bitcrusher's bitDepth
\* parameter (minValue 2, maxValue 16) or used by updateDistortionCurve.
LiveValues(settings, sampleRate) ==
    [highpass |-> AudioParam(OrDefault(settings.highpass, "highpass"),
                             0, (sampleRate \div 2) * AudioUnit),
     lowpass |-> AudioParam(OrDefault(settings.lowpass, "lowpass"),
                            0, (sampleRate \div 2) * AudioUnit),
     bitDepth |-> AudioParam(OrDefault(settings.bitDepth, "bitDepth"),
                             2 * AudioUnit, 16 * AudioUnit),
     distortion |-> OrDefault(settings.distortion, "distortion"),
     sampleRate |-> sampleRate]

\* No audio settings are in use.
UsageIdle ==
    /\ audioGiven = [f \in AudioFields |-> Null]
    /\ audioJob = {} /\ audioOffline = {} /\ audioLive = {}

\* parseAndValidateJob: settings.audio of the job
ParseJobAudio ==
    /\ audioJob = {}
    /\ audioJob' = {[f \in AudioFields |-> JobAudioField(audioGiven, f)]}
    /\ UNCHANGED <<coreVars, busVars, jobSettingVars, numericVars, exceptUsage,
                   audioGiven, audioOffline, audioLive>>

\* runAutomationCommand: exportVideo with the job's audio settings, which
\* reach applyAudioBitcrush.
ExportJobAudio(sampleRate) ==
    /\ audioJob # {} /\ audioOffline = {}
    /\ audioOffline' = {[from |-> "job",
                         used |-> OfflineValues(CHOOSE j \in audioJob : TRUE, sampleRate)]}
    /\ UNCHANGED <<coreVars, busVars, jobSettingVars, numericVars, exceptUsage,
                   audioGiven, audioJob, audioLive>>

\* applyAudioBitcrush with the settings as its caller gives them
ApplyAudioBitcrushTo(sampleRate) ==
    /\ audioOffline = {}
    /\ audioOffline' = {[from |-> "caller",
                         used |-> OfflineValues(audioGiven, sampleRate)]}
    /\ UNCHANGED <<coreVars, busVars, jobSettingVars, numericVars, exceptUsage,
                   audioGiven, audioJob, audioLive>>

\* GameBoyAudioProcessor.setSettings with the settings as its caller gives them
SetAudioSettings(sampleRate) ==
    /\ audioLive = {}
    /\ audioLive' = {LiveValues(audioGiven, sampleRate)}
    /\ UNCHANGED <<coreVars, busVars, jobSettingVars, numericVars, exceptUsage,
                   audioGiven, audioJob, audioOffline>>

ObjectIdle == CodecIdle /\ SeekIdle /\ UsageIdle

KernelIdle == AudioIdle /\ FsIdle /\ PaletteIdle /\ ObjectIdle

SettingIdle == TrimIdle /\ CropIdle /\ ResolutionIdle /\ KernelIdle

\* ============================================================ the system
InitWith(jobs) ==
    /\ cfg \in jobs
    /\ currentTime = 0 /\ videoPaused = TRUE /\ playbackRate = 1
    /\ readyState \in {1, 2}
    /\ endedQueued = FALSE /\ videoErrored = FALSE /\ presented = 0
    /\ xkind = "none" /\ xpc = "idle" /\ attempt = 0
    /\ framesCaptured = 0 /\ prevTs = NoTs /\ lastTs = NoTs
    /\ nextCaptureTime = 0
    /\ settled = FALSE /\ cbRegistered = FALSE /\ timeoutArmed = FALSE
    /\ endedListener = FALSE /\ errorListener = FALSE
    /\ promise = Pending
    /\ pendingEncodes = {}
    /\ endCause = "none" /\ framesAtEnd = 0 /\ lateFrames = FALSE /\ consumerFailed = FALSE
    /\ frameIndex = 0 /\ encodedOut = 0 /\ encoderError = FALSE /\ closed = FALSE
    /\ producedWhileFlushing = FALSE
    /\ epc = "load" /\ events = Emit(<<>>, "load") /\ blob = NoBlob
    /\ hwFailed = FALSE /\ hwError = FALSE
    /\ audioBlob = "none" /\ hasAudio = FALSE /\ error = "none"

\* Every subsystem other than the export core at rest.
SideIdle == CliIdle /\ DitherIdle /\ UiIdle /\ PixelIdle /\ SettingIdle

Init == InitWith(Jobs \cup LongJobs \cup BadJobs) /\ SideIdle

Next ==
    \/ RunnerLoaded
    \/ HandleExport
    \/ ExportSelectEncoder
    \/ WaitForReadyCanPlay
    \/ WaitForReadyTimeout
    \/ SeekAttemptFails
    \/ SeekBackoffElapsed
    \/ SeekedStartPlayback
    \/ VideoAdvance
    \/ VideoEnded
    \/ VideoError
    \/ StreamCaptureFrame
    \/ BufferCaptureFrame
    \/ StreamTimeout
    \/ BufferTimeout
    \/ StreamAllEncodesSettled
    \/ EncoderOutput
    \/ \E i \in pendingEncodes : FlushResolved(i)
    \/ EncoderErrorCallback
    \/ HwExtractSettled
    \/ HwFinalizeFlushed
    \/ HwMuxDone
    \/ SwExtractSettled
    \/ SwEncodeDone
    \/ RunnerWrite

Spec == Init /\ [][Next]_vars


\* The jobs of the progress check: a trim that ends inside the clip and one
\* that ends with it, for each frame rate, extraction variant and encoder;
\* the long clip on the streaming path, where the encoder queue fills.
FairJobs ==
    {j \in Jobs : j.trim \in {<<0, 3>>, <<2, MaxDuration>>}}
    \cup {j \in LongJobs : j.hasRVFC}

FairInit == InitWith(FairJobs \cup BadJobs) /\ SideIdle

\* The scheduling the runtime guarantees: armed timers fire, the codec keeps
\* emitting chunks, fulfilled flushes and Promise.all reactions run.
FairSpec ==
    /\ FairInit /\ [][Next]_vars
    /\ WF_vars(StreamTimeout)
    /\ WF_vars(BufferTimeout)
    /\ WF_vars(StreamAllEncodesSettled)
    /\ WF_vars(EncoderOutput)
    /\ WF_vars(\E i \in pendingEncodes : FlushResolved(i))

\* The export core at rest.
CoreIdle == InitWith({CHOOSE j \in Jobs : TRUE}) /\ readyState = 1

CliInit ==
    /\ CoreIdle /\ DitherIdle /\ UiIdle /\ PixelIdle /\ SettingIdle
    /\ cli \in CliSessions
    /\ mainPc = "boot" /\ exitCode = 0 /\ stdout = <<>>
    /\ automationFinished = FALSE /\ automationTimeout = FALSE
    /\ ipc = <<>> /\ runnerPc = "idle" /\ failedPhase = "none"
    /\ commandSucceeded = FALSE
    /\ outputFile \in {"absent", "present"} /\ outputChecked = "unchecked"

CliNext ==
    \/ InvalidCli
    \/ StartAutomation
    \/ AutomationTimedOut
    \/ OnAutomationEvent
    \/ OnAutomationDone
    \/ OnAutomationFail
    \/ AppExited
    \/ WindowAllClosed
    \/ ParseAndValidateJob
    \/ LoadVideo
    \/ ExportExtract
    \/ ExportEncode
    \/ WriteOutput
    \/ OutputCreatedElsewhere

CliSpec == CliInit /\ [][CliNext]_vars

DitherInit == CoreIdle /\ CliIdle /\ DitherIdle /\ UiIdle /\ PixelIdle /\ SettingIdle

DitherNext ==
    \/ ProcessFrame
    \/ WorkerAnswers
    \/ WorkerFails
    \/ Terminate

DitherSpec == DitherInit /\ [][DitherNext]_vars

UiInit == CoreIdle /\ CliIdle /\ DitherIdle /\ UiIdle /\ PixelIdle /\ SettingIdle

UiNext ==
    \/ \E j \in ExportCalls : ClickExport(j)
    \/ \E j \in ExportCalls : SaveDialogCancelled(j)
    \/ \E j \in ExportCalls : SaveDialogChosen(j)
    \/ \E j \in ExportCalls : ExportSettled(j)

UiSpec == UiInit /\ [][UiNext]_vars

RenderInit == CoreIdle /\ CliIdle /\ DitherIdle /\ UiIdle /\ PixelIdle /\ SettingIdle

RenderNext ==
    \/ \E settings \in ProcessingSettings : SetSettings(settings)
    \/ \E luminance \in Frames : VideoProcessFrame(luminance)

RenderSpec == RenderInit /\ [][RenderNext]_vars

DimInit ==
    /\ CoreIdle /\ CliIdle /\ DitherIdle /\ UiIdle /\ RenderIdle /\ SettingIdle
    /\ sourceVideo \in SourceVideos
    /\ encoderPath = "none" /\ outputDims = NoDims

DimNext ==
    \/ NewWebCodecsEncoder
    \/ EncodeMp4

DimSpec == DimInit /\ [][DimNext]_vars

TrimInit ==
    /\ CoreIdle /\ CliIdle /\ DitherIdle /\ UiIdle /\ PixelIdle /\ CropIdle /\ ResolutionIdle
    /\ KernelIdle
    /\ sourceDuration \in 1 .. MaxTrimDuration
    /\ \/ trimPc = "job" /\ jobTrim \in [startSec : RawSecs, endSec : RawSecs]
       \/ trimPc = "timeline" /\ jobTrim = [startSec |-> Null, endSec |-> Null]
    /\ trimStart = 0 /\ trimEnd = 100
    /\ trimRange = NoRange

TrimNext ==
    \/ ParseTrim
    \/ ResolveTrim
    \/ RunnerExport
    \/ \E h \in Handles, left \in BOOLEAN,
          step \in {KEYBOARD_STEP, KEYBOARD_LARGE_STEP} : HandleKeyDown(h, left, step)
    \/ \E h \in Handles, percent \in DragPercents : ApplyDragAt(h, percent)
    \/ TimelineExport

TrimSpec == TrimInit /\ [][TrimNext]_vars

CropInit ==
    /\ CoreIdle /\ CliIdle /\ DitherIdle /\ UiIdle /\ PixelIdle /\ TrimIdle /\ ResolutionIdle
    /\ KernelIdle
    /\ cropPc = "job"
    /\ cropSource \in CropSources
    /\ jobCrop \in [x : RawTenths, y : RawTenths, width : RawTenths,
                    height : RawTenths] \cup {NoCrop}
    /\ cropRegion = FullFrame(cropSource.width, cropSource.height)
    /\ currentCropRegion = FullFrame(cropSource.width, cropSource.height)

CropNext ==
    \/ ValidateCrop
    \/ ResolveCrop
    \/ SetCropRegion

CropSpec == CropInit /\ [][CropNext]_vars

ResolutionInit ==
    /\ CoreIdle /\ CliIdle /\ DitherIdle /\ UiIdle /\ PixelIdle
    /\ TrimIdle /\ CropIdle /\ ResolutionIdle /\ KernelIdle

ResolutionNext ==
    \/ \E info \in SourceVideos : SetSourceVideoInfo(info)
    \/ \E mode \in DitherModes : SetDitherMode(mode)
    \/ \E size \in DisplaySizes : SetDisplaySize(size)
    \/ RenderExport

ResolutionSpec == ResolutionInit /\ [][ResolutionNext]_vars

JobSettingIdle == TrimIdle /\ CropIdle /\ ResolutionIdle

AudioInit ==
    /\ CoreIdle /\ CliIdle /\ DitherIdle /\ UiIdle /\ PixelIdle /\ JobSettingIdle
    /\ FsIdle /\ PaletteIdle /\ ObjectIdle
    /\ audioSettings \in AudioSettings
    /\ audioInput = <<>> /\ sampleCounter = 0 /\ lastSample = 0
    /\ liveOutput = <<>> /\ offlineOutput = NoOutput

AudioNext ==
    \/ \E block \in [1 .. RenderQuantum -> AudioSamples] : Process(block)
    \/ ApplyAudioBitcrush

AudioSpec == AudioInit /\ [][AudioNext]_vars

FsInit ==
    /\ CoreIdle /\ CliIdle /\ DitherIdle /\ UiIdle /\ PixelIdle /\ JobSettingIdle
    /\ AudioIdle /\ PaletteIdle /\ ObjectIdle
    /\ fsImage \in FsImages
    /\ fsOutput = NoImage /\ fsDiffusion = <<>> /\ bayerOutput = NoImage

FsNext ==
    \/ FloydSteinbergDither
    \/ BayerDither

FsSpec == FsInit /\ [][FsNext]_vars

PaletteInit ==
    /\ CoreIdle /\ CliIdle /\ DitherIdle /\ UiIdle /\ PixelIdle /\ JobSettingIdle
    /\ AudioIdle /\ FsIdle /\ PaletteIdle /\ ObjectIdle

PaletteNext ==
    \/ \E name \in PALETTE_NAMES, invert \in BOOLEAN : SetPalette(name, invert)
    \/ SetInvertPalette
    \/ \E color \in QuantizedColors : FindClosestColor(color)

PaletteSpec == PaletteInit /\ [][PaletteNext]_vars

NumericIdle == AudioIdle /\ FsIdle /\ PaletteIdle

\* new WebCodecsEncoder({fps, ...}), with or without setAudioBlob
CodecInit ==
    /\ CoreIdle /\ CliIdle /\ DitherIdle /\ UiIdle /\ PixelIdle /\ JobSettingIdle
    /\ NumericIdle /\ SeekIdle /\ UsageIdle
    /\ codecFps \in CodecFps /\ wcAudioBlob \in BOOLEAN
    /\ captured = 0 /\ wcFrameIndex = 0
    /\ wcClosed = FALSE /\ wcEncoderError = FALSE
    /\ codecState = "configured" /\ encodeQueueSize = 0 /\ submitted = <<>>
    /\ awaitingFlush = 0 /\ finalizePc = "idle" /\ blobsReturned = 0
    /\ lastCall = Call("none", FALSE, "returned")

CodecNext ==
    \/ EncodeFrame
    \/ CodecOutput
    \/ CodecError
    \/ EncodeFlushSettled
    \/ Finalize
    \/ FinalizeFlushed
    \/ FinalizeAudioEncoded
    \/ Close

CodecSpec == CodecInit /\ [][CodecNext]_vars

\* seekTo(video, targetTime) is called on a loaded video.
SeekInit ==
    /\ CoreIdle /\ CliIdle /\ DitherIdle /\ UiIdle /\ PixelIdle /\ JobSettingIdle
    /\ NumericIdle /\ CodecIdle /\ UsageIdle
    /\ seekPc = "start" /\ seekAttempts = <<>> /\ seekInProgress = 0
    /\ mediaErrored = FALSE /\ mediaQueue = <<>>

SeekNext ==
    \/ AttemptSeek
    \/ SeekCompletes
    \/ MediaError
    \/ DispatchMediaEvent
    \/ \E i \in DOMAIN seekAttempts : SeekTimeout(i)

SeekSpec == SeekInit /\ [][SeekNext]_vars

\* Audio settings are given; nothing has used them yet.
UsageInit ==
    /\ CoreIdle /\ CliIdle /\ DitherIdle /\ UiIdle /\ PixelIdle /\ JobSettingIdle
    /\ NumericIdle /\ CodecIdle /\ SeekIdle
    /\ audioGiven \in AudioGiven
    /\ audioJob = {} /\ audioOffline = {} /\ audioLive = {}

UsageNext ==
    \/ ParseJobAudio
    \/ \E sampleRate \in SampleRates : ExportJobAudio(sampleRate)
    \/ \E sampleRate \in SampleRates : ApplyAudioBitcrushTo(sampleRate)
    \/ \E sampleRate \in SampleRates : SetAudioSettings(sampleRate)

UsageSpec == UsageInit /\ [][UsageNext]_vars

\* ================================================================ claims
PhaseRank(phase) ==
    CASE phase = "load" -> 0
      [] phase = "extract" -> 1
      [] phase = "encode" -> 2
      [] phase = "write" -> 3

EarlyEndCauses == {"trimEnd", "ended", "paused", "timeout"}

\* floor((e - s) * f), the trim given in ticks
FloorFrames == ((cfg.trim[2] - cfg.trim[1]) * cfg.fps) \div TicksPerSecond

\* C1 (as stated): every extraction job that yields frames yields exactly
\* floor((e-s)*f) of them, never fewer and never more.
C1_ExactFrameCount ==
    (xkind # "none" /\ promise.state = "resolved") => promise.value = FloorFrames

\* C1 (amended): a job never captures or yields more than floor((e-s)*f)
\* frames, and it yields fewer only when it ended because source time reached
\* the trim end, playback ended or the safety timeout fired.
C1_AtMostTotalFrames ==
    /\ framesCaptured <= FloorFrames
    /\ (xkind # "none" /\ promise.state = "resolved") =>
          /\ promise.value <= FloorFrames
          /\ promise.value < FloorFrames => endCause \in EarlyEndCauses

\* C1 witness: targetFps = 10, trim 0 .. 0.6 s, six frames yielded.
C1_Witness ==
    /\ cfg.fps = 10 /\ cfg.trim = <<0, 6>>
    /\ promise.state = "resolved" /\ promise.value = 6 /\ endCause = "count"

\* C2: the streaming extraction promise never settles (resolve or reject)
\* while a consumer invocation of one of its frames is still pending.
C2_NoSettleWhilePending ==
    (xkind = "stream" /\ promise.state # "pending") => pendingEncodes = {}

\* C3: once an encodeFrame call threw or the encoder reported an error, the
\* export leaves the hardware path: no blob of the WebCodecs encoder is ever
\* returned, and a finished export carries the FFmpeg path's non-empty output.
C3_FallbackOnHardwareError ==
    /\ (hwError \/ hwFailed) => blob.producer # "webcodecs"
    /\ (hwError /\ epc \in {"exported", "done"}) =>
          /\ hwFailed
          /\ blob.producer = "ffmpeg"
          /\ blob.frames >= 1

\* C3 witness: a hardware error happened and the export finished via FFmpeg.
C3_Witness ==
    /\ hwError /\ hwFailed /\ epc = "done"
    /\ blob.producer = "ffmpeg"

\* C4 (as stated): the job has terminated at the latest when the safety
\* timeout has fired.
C4_SettledOnceTimeoutFired ==
    endCause = "timeout" => promise.state # "pending"

\* C4 (amended): every job that started playing eventually settles; a
\* buffered job has settled when its timeout has fired, a streaming job settles
\* once its finalize flag fired and its pending consumers have settled.
C4_EventuallySettles ==
    /\ [](xkind = "buffer" /\ endCause = "timeout" => promise.state # "pending")
    /\ (xpc = "playing" /\ promise.state = "pending") ~> (promise.state # "pending")

\* C4 witness: a streaming job whose timeout fired with a consumer pending has
\* settled afterwards.
C4_Witness ==
    /\ xkind = "stream" /\ endCause = "timeout"
    /\ promise.state = "resolved" /\ framesAtEnd > ENCODE_QUEUE_BACKPRESSURE

\* C5: when the safety timeout ends a job, the job yields the frames captured
\* so far if there is at least one, and otherwise fails with the timeout
\* error; it never succeeds with an empty result.
C5_TimeoutPartialOrFail ==
    endCause = "timeout" =>
        IF framesAtEnd > 0
        THEN /\ promise.state # "rejected"
             /\ promise.state = "resolved" => promise.value = framesAtEnd
        ELSE promise.state = "rejected" /\ promise.reason = "timeout"

\* C5 witness: a timeout that returned a partial result.
C5_Witness ==
    /\ endCause = "timeout" /\ promise.state = "resolved"
    /\ promise.value >= 1 /\ promise.value < totalFrames

\* C6: at most three seek attempts are started, a retry follows only a failed
\* attempt that was not the third, playback starts only after an attempt that
\* succeeded, and after three failures the job fails with no frame captured.
C6_SeekAtMostThreeAttempts ==
    /\ attempt <= 3
    /\ xpc = "backoff" => attempt < 3
    /\ xpc = "playing" => attempt \in 1 .. 3
    /\ endCause = "seekFailed" =>
          /\ attempt = 3 /\ xpc = "failed"
          /\ promise.state = "rejected" /\ framesCaptured = 0
    /\ (xpc \in {"waitReady", "seeking", "backoff", "failed"}) => framesCaptured = 0

\* C6 witness: the third attempt failed and the job failed.
C6_Witness ==
    endCause = "seekFailed" /\ attempt = 3 /\ promise.state = "rejected"

\* C7: once a job has ended (completion, end of playback, failure, timeout),
\* it renders and emits no further frame.
C7_NoFrameAfterFinalize == ~lateFrames

\* C8: while an encodeFrame call awaits the flush it requested because the
\* queue exceeded the threshold, the producer produces no further frame.
C8_ProducerAwaitsFlush == ~producedWhileFlushing

\* C9: captured frame timestamps are non-decreasing in capture order and
\* never below the trim start.
C9_TimestampsMonotone ==
    /\ framesCaptured >= 1 => lastTs >= startTime
    /\ framesCaptured >= 2 => (prevTs >= startTime /\ prevTs <= lastTs)

\* C9 witness: two frames with increasing timestamps in a job whose trim
\* starts after the beginning of the clip.
C9_Witness ==
    /\ startTime > 0 /\ framesCaptured >= 2
    /\ prevTs >= startTime /\ prevTs < lastTs

\* C10: the progress phases are reported in the order load, extract, encode,
\* write; no earlier phase is reported after a later one.
C10_PhasesInOrder ==
    \A i, j \in 1 .. Len(events) :
        i < j => PhaseRank(events[i]) <= PhaseRank(events[j])

\* C11 (as stated): a missing or failed audio extraction or audio mux never
\* fails the export: no export is rejected by an audio step, and an export
\* whose audio extraction yielded nothing finishes with a video-only file.
C11_AudioNeverFailsJob ==
    /\ error # "audioMux"
    /\ (audioBlob = "null" /\ epc \in {"exported", "done"}) => ~hasAudio

\* C11 (amended): a missing or failed audio extraction never fails the export
\* on either path (the FFmpeg path then returns a video-only file), and on
\* the streaming path no audio step fails the export once the video blob
\* exists; only on the FFmpeg path, with audio extracted, can an audio step of
\* the encode reject the export.
C11_AudioExtractionNeverFailsJob ==
    /\ audioBlob = "null" => error # "audioMux"
    /\ (audioBlob = "null" /\ epc \in {"exported", "done"}) =>
          (~hasAudio /\ blob.producer = "ffmpeg" /\ blob.frames >= 1)
    /\ blob.producer = "webcodecs" => error \in {"none", "write"}
    /\ error = "audioMux" =>
          (audioBlob = "blob" /\ blob = NoBlob /\ xkind = "buffer")

\* C11 witness: the audio extraction yielded nothing and the export finished
\* with a video-only file.
C11_Witness ==
    /\ audioBlob = "null" /\ epc = "done" /\ ~hasAudio
    /\ blob.producer = "ffmpeg" /\ blob.frames >= 1

\* C12: a source with a zero or non-finite duration never yields an encoded
\* blob and never gets an output file written, on either encode path.
C12_FatalInputNoOutput ==
    BadDuration => (blob = NoBlob /\ epc \notin {"hwMux", "exported", "done"})

\* The job_error events written to stdout.
JobErrors == {i \in 1 .. Len(stdout) : stdout[i].type = "job_error"}

\* C13: a CLI session exits with 0 only when the command succeeded, with 2
\* only for invalid arguments or a job validation failure, with 3 only for a
\* runtime failure of the command, with 124 only when the automation timeout
\* fired, and with no other code.
C13_ExitCodeMatchesOutcome ==
    mainPc = "exited" =>
        /\ exitCode \in {0, 2, 3, 124}
        /\ exitCode = 0 => commandSucceeded
        /\ exitCode = 2 => (cli.mode = "invalid" \/ runnerPc = "rejected")
        /\ exitCode = 3 => runnerPc = "failed"
        /\ exitCode = 124 => (\E i \in JobErrors : stdout[i].code = 124)

\* C14: when a CLI session has exited with a non-zero code, exactly one
\* job_error event was written to stdout, it is the last event written, and
\* its code field equals the exit code.
C14_NonZeroExitHasJobError ==
    (mainPc = "exited" /\ exitCode # 0) =>
        /\ JobErrors = {Len(stdout)}
        /\ stdout[Len(stdout)].code = exitCode

\* C14 witness: sessions that exited with 3 after a runtime failure of the
\* command.
C14_Witness ==
    /\ mainPc = "exited" /\ exitCode = 3 /\ runnerPc = "failed"
    /\ stdout[Len(stdout)] = JsonEvent("job_error", "load", 3)

\* C15: the job_error event of a failed command names the phase in which the
\* command failed.
C15_FailurePhaseReported ==
    \A i \in JobErrors :
        stdout[i].code \in {2, 3} /\ failedPhase # "none" =>
            stdout[i].phase = failedPhase

\* Requests whose promise is pending.
PendingRequests == {i \in DOMAIN requests : requests[i].state = "pending"}

\* C16: at most one dither request is in flight per worker (posted and not
\* yet answered, or its promise pending), and a request preempted by a newer
\* one is rejected and never resolved.
C16_OneRequestInFlight ==
    /\ Len(workerInbox) <= 1
    /\ Cardinality(PendingRequests) <= 1
    /\ \A i \in DOMAIN requests :
          i < Len(requests) => requests[i].state # "pending"

\* handleExport calls that are inside exportVideo.
RunningExports == {j \in ExportCalls : exportPc[j] = "exporting"}

\* C17: at most one export job uses the singleton processor at any time, and
\* the processor holds the settings of the running job for as long as it runs.
C17_OneExportAtATime ==
    /\ Cardinality(RunningExports) <= 1
    /\ \A j \in RunningExports : processorSettings = j

\* The renders of one run, in order.
RunOf(r) == SelectSeq(rendered, LAMBDA e : e.run = r)

\* The sequence of one field of a run's renders.
FieldOf(run, field) == [i \in DOMAIN run |-> run[i][field]]

\* C18: two runs on the shared processor with the same settings and the same
\* source frames produce the same processed pixels, whatever the pipeline
\* rendered before each of them.
C18_RunsDeterministic ==
    \A r1, r2 \in 0 .. runId :
        LET a == RunOf(r1)
            b == RunOf(r2)
        IN  (/\ FieldOf(a, "settings") = FieldOf(b, "settings")
             /\ FieldOf(a, "frame") = FieldOf(b, "frame"))
            => FieldOf(a, "pixels") = FieldOf(b, "pixels")

\* C19: when a frame is rendered with invertPalette = true and then the same
\* frame with invertPalette = false and otherwise the same settings, the
\* second render gives the pixels it gives when the first render did not
\* invert either.
C19_InvertLeavesNoResidue ==
    \A i \in DOMAIN rendered :
        (/\ i > 1
         /\ rendered[i].frame = rendered[i - 1].frame
         /\ rendered[i - 1].settings.invertPalette
         /\ rendered[i].settings =
                [rendered[i - 1].settings EXCEPT !.invertPalette = FALSE])
        => rendered[i].pixels =
               ProcessedPixel(rendered[i].frame, rendered[i].settings,
                   PreviousAfter(rendered[i].frame, rendered[i].settings))

\* C20: the video an MP4 export encodes has an even width and an even height,
\* on the streaming encoder and on the FFmpeg path, whatever the parity of
\* the frame dimensions.
C20_OutputDimsEven ==
    encoderPath # "none" =>
        /\ outputDims.width % 2 = 0 /\ outputDims.height % 2 = 0
        /\ outputDims.width >= FrameDims.width
        /\ outputDims.height >= FrameDims.height

\* C20 witness: the FFmpeg path encoded frames of odd width, one pixel wider.
C20_Witness ==
    /\ encoderPath = "ffmpeg"
    /\ FrameDims.width % 2 = 1
    /\ outputDims.width = FrameDims.width + 1
    /\ outputDims.height % 2 = 0

\* C21: the trim range exportVideo hands to the extractor satisfies
\* 0 <= start < end <= sourceDuration, from a job file and from the timeline.
C21_TrimRangeOrdered ==
    trimPc = "extracting" =>
        /\ 0 <= trimRange.start
        /\ trimRange.start < trimRange.end
        /\ trimRange.end <= 100 * sourceDuration

\* The pipeline's crop region lies in the source frame: in [0, 1] with
\* x + width <= 1 and y + height <= 1.
CropInFrame ==
    /\ currentCropRegion.x >= 0 /\ currentCropRegion.y >= 0
    /\ currentCropRegion.width > 0 /\ currentCropRegion.height > 0
    /\ currentCropRegion.x + currentCropRegion.width
           <= PixelUnit * cropSource.width
    /\ currentCropRegion.y + currentCropRegion.height
           <= PixelUnit * cropSource.height

\* The pipeline's crop region has the aspect 128:112 in source pixels.
CropHasSensorAspect == 7 * currentCropRegion.width = 8 * currentCropRegion.height

C23_ProcessingIgnoresDisplay ==
    processDims = ProcessingResolutionFor(sourceVideoInfo, currentDitherMode)

\* C23 witness: the pipeline was given a display size smaller than the
\* processing size of its 8:7 source, and its viewport follows the display.
C23_Witness ==
    /\ displaySize = [width |-> 100, height |-> 100]
    /\ sourceVideoInfo = [width |-> 8, height |-> 7]
    /\ processDims = [width |-> 165, height |-> 144]
    /\ viewport.width = 100

\* C24: for the same settings and the same input samples, the offline
\* sample-and-hold, quantisation and soft clip put out the same sample values
\* as the live bitcrusher worklet followed by the wave shaper.
C24_OfflineMatchesLive ==
    offlineOutput # NoOutput => offlineOutput = liveOutput

\* The part of C24 about the bitcrusher alone: without distortion the two
\* chains agree sample for sample.
C24_BitcrushMatches ==
    (offlineOutput # NoOutput /\ audioSettings.distortion = 0)
        => offlineOutput = liveOutput

C24_BitcrushWitness ==
    /\ offlineOutput # NoOutput /\ audioSettings.distortion = 0
    /\ Len(audioInput) > BITCRUSH_SAMPLE_RATE_REDUCTION
    /\ \E i \in 2 .. Len(audioInput) : offlineOutput[i] # audioInput[i] * FineUnit

SumOf(added) == added[1] + added[2] + added[3] + added[4]

\* Whether the four neighbours of the pixel at (x, y) lie inside the image.
HasAllNeighbours(x, y) ==
    \A k \in 1 .. 4 :
        InImage(FsWidth, FsHeight, x + Neighbours[k].dx, y + Neighbours[k].dy)

\* C25 (as stated): for every pixel, the amounts added to the right,
\* bottom-left, bottom and bottom-right neighbours sum to exactly the pixel's
\* quantization error.
C25_ErrorConserved ==
    \A k \in 1 .. Len(fsDiffusion) :
        SumOf(fsDiffusion[k].added) = fsDiffusion[k].error

\* C25 (amended): for every pixel whose four neighbours lie inside the image
\* the amounts added are 7/16, 3/16, 5/16 and 1/16 of the error and sum to
\* exactly the error; the share of a neighbour outside the image is dropped.
C25_ErrorConservedInside ==
    \A k \in 1 .. Len(fsDiffusion) :
        LET e == fsDiffusion[k]
        IN  /\ HasAllNeighbours(e.x, e.y) =>
                  /\ SumOf(e.added) = e.error
                  /\ 16 * e.added[1] = 7 * e.error
                  /\ 16 * e.added[2] = 3 * e.error
                  /\ 16 * e.added[3] = 5 * e.error
                  /\ 16 * e.added[4] = e.error
            /\ \A j \in 1 .. 4 :
                  ~InImage(FsWidth, FsHeight, e.x + Neighbours[j].dx,
                           e.y + Neighbours[j].dy) => e.added[j] = 0

C25_Witness ==
    \E k \in 1 .. Len(fsDiffusion) :
        /\ HasAllNeighbours(fsDiffusion[k].x, fsDiffusion[k].y)
        /\ fsDiffusion[k].error # 0
        /\ fsOutput # NoImage

\* What processFrame reads back in floydSteinberg mode with the LCD effects
\* off: renderExportFromPixels of the CPU dither.
floydProcessed ==
    [i \in 1 .. Len(fsOutput) |-> ExportPass(fsOutput[i], BlankTexture, FALSE)]

FirstPixelRulesDisagree ==
    PocketGrey[ClosestGreyIndex(fsImage[1] * FsUnit, PocketGrey)]
        # PocketGrey[bayerPaletteIndex(fsImage[1], getBayerValue(0, FsHeight - 1)) + 1]

C27_QuantizeIdempotent ==
    (quantized # NoQuantization
       /\ \E i \in 1 .. 4 : quantized.palette[i] = quantized.color)
        => quantized.palette[quantized.closestIdx] = quantized.color

C27_Witness ==
    /\ quantized # NoQuantization
    /\ currentPalette = "MidnightBlue" /\ currentInvertPalette
    /\ quantized.color = <<107, 130, 165>>
    /\ quantized.closestIdx = 2

\* C28: inverting a palette and inverting the result gives the original
\* palette, entry for entry and in the same order, for the palette uploaded
\* to the GPU and for the palette of the CPU dither.
C28_InvertTwiceIsIdentity ==
    /\ getPaletteAsFloat(getPaletteAsFloat(paletteData, TRUE), TRUE) = paletteData
    /\ reverse(reverse(fsPalette)) = fsPalette
    /\ inversions % 2 = 0 =>
          /\ paletteData = firstPalettes.gpu
          /\ fsPalette = firstPalettes.cpu
    /\ inversions % 2 = 1 =>
          /\ getPaletteAsFloat(paletteData, TRUE) = firstPalettes.gpu
          /\ reverse(fsPalette) = firstPalettes.cpu

C28_Witness ==
    /\ inversions = 2
    /\ currentPalette = "RedBlack"
    /\ paletteData = firstPalettes.gpu /\ fsPalette = firstPalettes.cpu
    /\ paletteData # getPaletteAsFloat(paletteData, TRUE)

\* C29: when a consumer invocation of a streaming extraction has failed, the
\* extraction's promise is never resolved with a frame count, even when the
\* failure comes while finalize is waiting for the pending consumers.
C29_ConsumerFailureRejects ==
    (xkind = "stream" /\ consumerFailed) => promise.state # "resolved"

\* C30: a promise returned by processFrame is resolved only with the worker's
\* result for that same request, never with the reply to an earlier one.
C30_ResolvedWithOwnResult ==
    \A i \in DOMAIN requests :
        requests[i].state = "resolved" => requests[i].value = i

\* C31: when frame n of a job is rendered with ghosting, the texture blended
\* in as the previous frame is the post-dither output of frame n-1 of that
\* job, in every dither mode.
C31_GhostIsPreviousFrame ==
    \A i \in DOMAIN rendered :
        (/\ i > 1
         /\ rendered[i].run = rendered[i - 1].run
         /\ rendered[i].settings.lcdEnabled)
        => rendered[i].blended =
               PreviousAfter(rendered[i - 1].frame, rendered[i - 1].settings)

\* C32: once the first of done, fail or timeout has been handled
\* (automationFinished is set), no later done, fail, timeout or renderer
\* event changes the exit code or writes a further event to stdout.
C32_OneTerminalOutcome ==
    [][automationFinished =>
          (automationFinished' /\ exitCode' = exitCode /\ stdout' = stdout)]_vars

\* The timeout ended the session and the renderer's failure message, sent
\* before it, was handled afterwards.
C32_Witness ==
    /\ automationFinished /\ exitCode = 124
    /\ runnerPc \in {"failed", "rejected"} /\ ipc = <<>>
    /\ stdout[Len(stdout)] = JsonEvent("job_error", "load", 124)

C34_DeadEncoderStaysDead ==
    /\ [](lastCall.dead /\ lastCall.op \in {"encodeFrame", "finalize"}
            => lastCall.outcome = "threw")
    /\ [][EncoderDead =>
             /\ submitted' = submitted
             /\ blobsReturned' = blobsReturned
             /\ EncoderDead'
             /\ wcClosed => (wcClosed' /\ codecState' = codecState)]_vars

\* encodeFrame was called after finalize had returned its blob, and threw.
C34_Witness ==
    /\ blobsReturned = 1 /\ wcClosed /\ ~wcEncoderError
    /\ lastCall = Call("encodeFrame", TRUE, "threw")
    /\ Len(submitted) < captured

\* finalize was called after the encoder had reported an error, and threw.
C34_WitnessError ==
    /\ wcEncoderError /\ blobsReturned = 0
    /\ lastCall = Call("finalize", TRUE, "threw")

\* C40: with K = max(1, round(fps * 2)), the frame of index i is submitted as
\* a keyframe if and only if i mod K = 0; so frame 0 is a keyframe and no K
\* consecutive frames lack one.
C40_KeyframeEveryK ==
    LET K == Max(1, 2 * codecFps)
    IN  /\ \A i \in DOMAIN submitted :
              submitted[i].keyFrame <=> ((i - 1) % K = 0)
        /\ submitted # <<>> => submitted[1].keyFrame
        /\ \A i \in DOMAIN submitted :
              i + K - 1 <= Len(submitted)
              => \E j \in i .. (i + K - 1) : submitted[j].keyFrame

\* A second keyframe has been submitted, with a full interval before it.
C40_Witness ==
    /\ Len(submitted) > 2 * codecFps
    /\ submitted[2 * codecFps + 1].keyFrame
    /\ ~submitted[2 * codecFps].keyFrame
    /\ codecFps = 15

\* C35: on every termination path of an extraction job after playback
\* started (frame count reached, trim end passed, playback ended, timeout,
\* video error, play() rejection, consumer failure) the video element is
\* left paused with playbackRate restored to 1.
C35_VideoRestoredAtEnd ==
    endCause # "none" => (videoPaused /\ playbackRate = 1)

\* C36 (as stated): each seek attempt settles exactly once, with exactly one
\* of seeked, error or timeout; on every outcome its listeners and its timer
\* are removed; and an event left over from one attempt never settles a
\* later attempt.
SettlesOnceAndCleansUp(a) ==
    /\ a.settles <= 1
    /\ (a.state = "pending") <=> (a.settles = 0)
    /\ a.state # "pending"
       => (~a.seekedListener /\ ~a.errorListener /\ ~a.timer /\ ~a.late)

C36_SettledByOwnEvents ==
    \A i \in DOMAIN seekAttempts :
        /\ SettlesOnceAndCleansUp(seekAttempts[i])
        /\ seekAttempts[i].state = "seeked" => seekAttempts[i].by = i

\* C36 (amended): each seek attempt settles exactly once, with exactly one
\* of seeked, error or timeout; on every outcome its listeners and its timer
\* are removed, so no handler of a settled attempt runs again and at most
\* the newest attempt is pending.
C36_SettlesOnceAndCleansUp ==
    \A i \in DOMAIN seekAttempts :
        /\ SettlesOnceAndCleansUp(seekAttempts[i])
        /\ i < Len(seekAttempts) => seekAttempts[i].state # "pending"

\* The first attempt timed out; its seek finished afterwards and the
\* 'seeked' event was dispatched during the backoff, to no listener.
C36_Witness ==
    /\ Len(seekAttempts) = 1 /\ seekAttempts[1].state = "timeout"
    /\ seekPc = "backoff" /\ ~mediaErrored
    /\ seekInProgress = 0 /\ mediaQueue = <<>>

\* C37: the processing render targets are torn down and recreated together,
\* never partially, exactly when the processing resolution changes, and are
\* reused unchanged otherwise; no target created earlier stays undeleted.
C37_TargetsRecreatedTogether ==
    /\ [](/\ \A n, m \in ProcessingTargets : targetGen[n] = targetGen[m]
          /\ liveTargets = Current(targetGen, ProcessingTargets)
          /\ exportPassDims = processDims)
    /\ [][IF processDims' # processDims
          THEN \A n \in ProcessingTargets : targetGen'[n] = targetGen[n] + 1
          ELSE targetGen' = targetGen /\ liveTargets' = liveTargets]_vars

\* The targets were recreated once, by the change to the sensor mode; the
\* source set in that mode and the export rendered since then reused them.
C37_Witness ==
    /\ targetGen["cpuInput"] = 2
    /\ currentDitherMode = "gameBoyCamera"
    /\ sourceVideoInfo = [width |-> 9, height |-> 1]
    /\ lastExportFramebuffer = "export"

C38_FoundOutputRejected ==
    outputChecked = "exists" =>
        /\ runnerPc = "rejected" /\ failedPhase = "load" /\ ~commandSucceeded
        /\ outputFile \in {"present", "elsewhere"}
        /\ \A i \in 1..Len(ipc) : ipc[i].channel = "fail" => ipc[i].code = 2

\* A run job was rejected because its outputPath was taken.
C38_FoundOutputWitness ==
    outputChecked = "exists" /\ runnerPc = "rejected" /\ mainPc = "exited" /\ exitCode = 2

\* The export was written over a file stored after the check of outputPath.
C38_OverwrittenWitness ==
    outputChecked = "free" /\ outputFile = "export" /\ commandSucceeded

\* ---- C39
\* The value lies between the bounds, all in whole units.
Within(value, lo, hi) == lo * AudioUnit <= value /\ value <= hi * AudioUnit

\* The widest fixed bounds any of the three paths puts on a setting: the
\* sliders' for the frequencies, 2 .. 16 bits, 0 .. 100 percent; the
\* frequencies may also have been lowered to what the sample rate allows.
WithinFixedBounds(used) ==
    /\ Within(used.highpass, 10, SLIDERS.highpass.MAX)
    /\ Within(used.lowpass, 10, SLIDERS.lowpass.MAX)
    /\ Within(used.bitDepth, 2, 16)
    /\ Within(used.distortion, SLIDERS.distortion.MIN, SLIDERS.distortion.MAX)

====
